---- MODULE Spec2Model ----
(***************************************************************************)
(* A model of icam-factory: the per-camera frame slot and its capture      *)
(* task (src/stream.py), the violation detectors with their per-track      *)
(* alert de-duplication (src/detectors.py), the alert table                *)
(* (src/alerts.py) and the per-camera pipelines with the bounded hand-off  *)
(* to the display loop (src/main.py).                                      *)
(*                                                                         *)
(* Python's None is the integer None (-1): track identifiers and frames    *)
(* are positive integers, so -1 is never one of them.                      *)
(***************************************************************************)
EXTENDS Integers, Sequences, FiniteSets, Bags, TLC

\* ------------------------------------------------------------------ bounds
\* Track identifiers the tracker hands out are 1..MaxTrack.
MaxTrack == 2
\* A frame's detection result holds at most MaxBoxes boxes.
MaxBoxes == 2
\* config.N_CAMS (environment variable N_CAMS): the number of cameras.
N_CAMS == 2
\* A capture device delivers at most MaxFrames frames: frame k of a camera is
\* the k-th frame its device delivered.
MaxFrames == 2
\* save_alert is called at most MaxSaves times.
MaxSaves == 2
\* time.time() is read up to tick MaxTime (a tick is half a second).
MaxTime == 5
\* A feed yields at most MaxCount frames within one fps window.
MaxCount == 3
\* A save_alert call that commits its row and then raises is made while the
\* table holds fewer than MaxRows rows.
MaxRows == 1

\* ------------------------------------------------------- detectors: data
\* "... else None" of detectors.py: the absent track id / the empty slot.
None == -1

TrackIds == 1..MaxTrack

\* main.py DANGER_ZONES: the zone polygon of each camera.
DANGER_ZONES ==
  [c \in {0, 1, 2} |->
     CASE c = 0 -> << <<559, 175>>, <<766, 73>>, <<766, 156>>, <<704, 201>> >>
       [] c = 1 -> << <<216, 224>>, <<441, 272>>, <<527, 267>>, <<563, 288>>,
                      <<356, 283>>, <<121, 227>> >>
       [] c = 2 -> << <<232, 362>>, <<415, 355>>, <<765, 417>>, <<764, 458>>,
                      <<669, 473>> >>]

\* main.py camera_detectors: which detector instances each camera owns.
camera_detectors ==
  [c \in {0, 1, 2} |->
     CASE c = 0 -> {"danger_zone", "helmet"}
       [] c = 1 -> {"danger_zone"}
       [] c = 2 -> {"helmet"}]

\* One detector instance per (camera, key) of camera_detectors.
Detectors == {d \in {0, 1, 2} \X {"danger_zone", "helmet"} : d[2] \in camera_detectors[d[1]]}

\* The alert_type a detector passes to save_alert.
AlertType(key) == IF key = "danger_zone" THEN "danger_zone" ELSE "no_helmet"

\* int(v / 2) of Python: the quotient truncated toward zero.
IntHalf(v) == IF v >= 0 THEN v \div 2 ELSE -((-v) \div 2)

\* center_x, center_y of check_zone.
Center(xyxy) == <<IntHalf(xyxy[1] + xyxy[3]), IntHalf(xyxy[2] + xyxy[4])>>

\* cv2.pointPolygonTest(contour, pt, False) on an integer contour and an
\* integer point: +1 inside, 0 on the boundary, -1 outside.  Edge i runs
\* from vertex i-1 (the last vertex for i = 1) to vertex i.
PointPolygonTest(cnt, pt) ==
  LET n == Len(cnt)
      V0(i) == IF i = 1 THEN cnt[n] ELSE cnt[i - 1]
      V(i) == cnt[i]
      Skipped(i) ==
        \/ V0(i)[2] <= pt[2] /\ V(i)[2] <= pt[2]
        \/ V0(i)[2] > pt[2] /\ V(i)[2] > pt[2]
        \/ V0(i)[1] < pt[1] /\ V(i)[1] < pt[1]
      OnFlat(i) ==
        /\ pt[2] = V(i)[2]
        /\ \/ pt[1] = V(i)[1]
           \/ /\ pt[2] = V0(i)[2]
              /\ \/ V0(i)[1] <= pt[1] /\ pt[1] <= V(i)[1]
                 \/ V(i)[1] <= pt[1] /\ pt[1] <= V0(i)[1]
      Dist(i) == (pt[2] - V0(i)[2]) * (V(i)[1] - V0(i)[1])
                   - (pt[1] - V0(i)[1]) * (V(i)[2] - V0(i)[2])
      Signed(i) == IF V(i)[2] < V0(i)[2] THEN -Dist(i) ELSE Dist(i)
      OnEdge == \E i \in 1..n : IF Skipped(i) THEN OnFlat(i) ELSE Dist(i) = 0
      counter == Cardinality({i \in 1..n : ~Skipped(i) /\ Signed(i) > 0})
  IN  IF OnEdge THEN 0 ELSE IF counter % 2 = 0 THEN -1 ELSE 1

\* A mutant of PointInZone: the boundary is outside.
PointInZone_Strict(zone, xyxy) == PointPolygonTest(zone, Center(xyxy)) > 0

\* point_in_zone of check_zone: non-strict containment of the box centre.
PointInZone(zone, xyxy) == PointPolygonTest(zone, Center(xyxy)) >= 0

\* A mutant of HelmetCovers: the comparisons are not strict.
HelmetCovers_NonStrict(h, p) ==
  /\ h[1] <= p[3]
  /\ h[3] >= p[1]
  /\ 10 * h[2] <= 10 * p[2] + 3 * (p[4] - p[2])
  /\ h[4] >= p[2]

\* The helmet test of check_helmet, "hy1 < y1 + (y2 - y1) * 0.3" scaled by 10.
HelmetCovers(h, p) ==
  /\ h[1] < p[3]
  /\ h[3] > p[1]
  /\ 10 * h[2] < 10 * p[2] + 3 * (p[4] - p[2])
  /\ h[4] > p[2]

\* has_helmet of check_helmet: some helmet box of the frame covers the head.
HasHelmet(helmet_boxes, p) ==
  \E j \in 1..Len(helmet_boxes) : HelmetCovers(helmet_boxes[j].xyxy, p)

\* ------------------------------------------------ alerts.py: the alert table
\* What a save_alert call runs into: the INSERT raises (alerts.db is locked by
\* another writer for longer than the timeout), the commit raises, the
\* notification raises (trigger_alert prints an emoji, which a stdout of
\* another encoding refuses), or nothing does.
Outcomes == {"ok", "insert_failed", "commit_failed", "notify_failed"}

\* The row is in the table once execute and commit have both returned,
\* whatever the notification after them does.
Committed(outcome) == outcome \in {"ok", "notify_failed"}

\* A mutant of Triggered: the notification goes out once the INSERT was
\* attempted, whatever became of it.
Triggered_OnAttempt(outcome) == outcome \in {"ok", "notify_failed", "insert_failed"}

\* trigger_alert is the last statement of save_alert: it is invoked when
\* nothing before it raised.
Triggered(outcome) == outcome \in {"ok", "notify_failed"}

\* save_alert returns when nothing in it raised; every exception goes to the
\* caller.
Returned(outcome) == outcome = "ok"

\* The save_alert call of one check call that raises, and how: the at-th
\* call, or none of them.
NoFault == [at |-> 0, how |-> "ok"]
SaveFaults == {NoFault} \cup [at : 1..MaxBoxes, how : Outcomes \ {"ok"}]

\* save_alert: one INSERT of the row (the table is the bag of its rows; the
\* details string is the tuple of its parts).
save_alert(table, camera_id, alert_type, track_id, details) ==
  table (+) SetToBag({[camera_id |-> camera_id, alert_type |-> alert_type,
                       track_id |-> track_id, details |-> details]})

\* Rows of the table written for (camera, alert type, track).
AlertCount(table, camera_id, alert_type, track_id) ==
  LET rows == {r \in BagToSet(table) : /\ r.camera_id = camera_id
                                        /\ r.alert_type = alert_type
                                        /\ r.track_id = track_id}
  IN  BagCardinality([r \in rows |-> table[r]])

\* --------------------------------------------------- detectors.py: the checks
\* Mutants of ShouldAlert: no membership test, no None test, and a test of the
\* whole set instead of the track.
ShouldAlert_NoDedup(track_id, alerted) == track_id # None
ShouldAlert_NoIdCheck(track_id, alerted) == track_id \notin alerted
ShouldAlert_AnyAlerted(track_id, alerted) == track_id # None /\ alerted = {}

\* "if track_id is not None and track_id not in self.alerted_tracks".
ShouldAlert(track_id, alerted) == track_id # None /\ track_id \notin alerted

\* A mutant of AddTrack: the set is pruned to the newest track.
AddTrack_Pruned(alerted, track_id) == {track_id}

\* A mutant of AddTrack: the track is not recorded.
AddTrack_Lost(alerted, track_id) == alerted

\* "self.alerted_tracks.add(track_id)".
AddTrack(alerted, track_id) == alerted \cup {track_id}

\* "if cls_id == 2": the person class of the model.
IsPerson(box) == box.cls = 2

\* "elif cls_id == 0": the helmet class of the model.
IsHelmet(box) == box.cls = 0

\* The violation condition of check_zone for one box.
ZoneViolation(zone, box) == IsPerson(box) /\ PointInZone(zone, box.xyxy)

\* The outcome of the next save_alert call of a check call that has made
\* st.saves of them.
OutcomeOf(st, fault) == IF st.saves + 1 = fault.at THEN fault.how ELSE "ok"

\* "save_alert(...); self.alerted_tracks.add(track_id)" for one detection: the
\* row is written when the call got as far as its commit, the track is added
\* when the call returned, and the check call is over when it raised (nothing
\* in the detectors catches the exception).
AlertStep(st, track_id, row_table, outcome) ==
  [alerted |-> IF Returned(outcome) THEN AddTrack(st.alerted, track_id) ELSE st.alerted,
   table |-> IF Committed(outcome) THEN row_table ELSE st.table,
   saves |-> st.saves + 1,
   raised |-> ~ Returned(outcome)]

\* The state a check call starts its loop in.
CallState(alerted, table) ==
  [alerted |-> alerted, table |-> table, saves |-> 0, raised |-> FALSE]

\* One iteration of check_zone's loop over the boxes; st is what the loop has
\* reached: alerted_tracks, the table, the save_alert calls made and whether
\* one of them raised.
ZoneBoxStep(st, camera_id, zone, box, fault) ==
  IF ~ st.raised /\ ZoneViolation(zone, box) /\ ShouldAlert(box.id, st.alerted)
  THEN AlertStep(st, box.id,
                 save_alert(st.table, camera_id, "danger_zone", box.id,
                            <<"Person entered danger zone at",
                              Center(box.xyxy)[1], Center(box.xyxy)[2]>>),
                 OutcomeOf(st, fault))
  ELSE st

\* check_zone: the loop over results[0].boxes, in order, up to its end or to
\* the save_alert call that raises.
RECURSIVE check_zone(_, _, _, _, _)
check_zone(st, camera_id, zone, boxes, fault) ==
  IF boxes = <<>> THEN st
  ELSE check_zone(ZoneBoxStep(st, camera_id, zone, Head(boxes), fault),
                  camera_id, zone, Tail(boxes), fault)

\* person_boxes / helmet_boxes of check_helmet: the boxes of one class, in order.
PersonBoxes(boxes) == SelectSeq(boxes, IsPerson)
HelmetBoxes(boxes) == SelectSeq(boxes, IsHelmet)

\* The violation condition of check_helmet for one person box.
HelmetViolation(helmet_boxes, person_box) == ~HasHelmet(helmet_boxes, person_box.xyxy)

\* One iteration of check_helmet's loop over the person boxes.
HelmetBoxStep(st, camera_id, helmet_boxes, person_box, fault) ==
  IF ~ st.raised /\ HelmetViolation(helmet_boxes, person_box)
                /\ ShouldAlert(person_box.id, st.alerted)
  THEN AlertStep(st, person_box.id,
                 save_alert(st.table, camera_id, "no_helmet", person_box.id,
                            <<"Person without helmet detected">>),
                 OutcomeOf(st, fault))
  ELSE st

RECURSIVE HelmetLoop(_, _, _, _, _)
HelmetLoop(st, camera_id, helmet_boxes, person_boxes, fault) ==
  IF person_boxes = <<>> THEN st
  ELSE HelmetLoop(HelmetBoxStep(st, camera_id, helmet_boxes, Head(person_boxes), fault),
                  camera_id, helmet_boxes, Tail(person_boxes), fault)

\* check_helmet: partition the boxes, then the loop over the person boxes, up
\* to its end or to the save_alert call that raises.
check_helmet(st, camera_id, boxes, fault) ==
  HelmetLoop(st, camera_id, HelmetBoxes(boxes), PersonBoxes(boxes), fault)

\* Track ids (None included) of the person boxes that satisfy the detector's
\* violation condition in one call.
Violators(d, boxes) ==
  IF d[2] = "danger_zone"
  THEN {boxes[i].id : i \in {j \in 1..Len(boxes) : ZoneViolation(DANGER_ZONES[d[1]], boxes[j])}}
  ELSE {boxes[i].id : i \in {j \in 1..Len(boxes) :
            IsPerson(boxes[j]) /\ HelmetViolation(HelmetBoxes(boxes), boxes[j])}}

\* ------------------------------------------- the tracker's output (inputs)
\* A person box whose centre lies in the camera's zone (cameras 0 and 1; camera
\* 2 has no zone detector and sees the box of camera 0), one whose centre lies
\* in no zone, and a helmet box over the head of the first.
NearBox(c) == IF c = 1 THEN <<300, 165, 400, 365>> ELSE <<650, 100, 750, 200>>
FarBox == <<50, 0, 150, 200>>
HelmetBox == <<670, 95, 730, 205>>

Detections(c) ==
  [cls : {2}, id : TrackIds \cup {None}, xyxy : {NearBox(c), FarBox}]
    \cup [cls : {0}, id : {1}, xyxy : {HelmetBox}]

\* results[0].boxes of one frame of camera c: at most MaxBoxes boxes.
Results(c) == UNION {[1..n -> Detections(c)] : n \in 0..MaxBoxes}

\* ------------------------------------------------- stream.py: the camera
Cams == 0..(N_CAMS - 1)

VARIABLES
  vcap_opened,  \* camera -> vcap.isOpened()
  captured,     \* camera -> number of frames its device has delivered
  last_frame,   \* camera -> Camera.last_frame: None or a frame
  read_ret,     \* camera -> the flag "_" of the last vcap.read(): "unset", "true", "false"
  cap_pc,       \* camera -> where its _update_frame thread is
  lock,         \* Camera.lock, one class attribute for every camera: None or its holder
  rd_cam,       \* the camera a thread calling get_last_frame reads
  rd_pc,        \* where that thread is: "call", "tested", "done", "raised"
  rd_result,    \* what its last get_last_frame call returned
  streamer_cam  \* camera -> CameraStreamer.cam of the streamer its pipeline is
                \* handed: "camera" (a Camera) or "url" (a string)

camVars == <<vcap_opened, captured, last_frame, read_ret, cap_pc, lock,
             rd_cam, rd_pc, rd_result, streamer_cam>>

\* vcap.read(): (True, next frame), (False, None) on a read error or a closed
\* device; the k-th frame of a device is the frame k.
VcapRead(opened, delivered) ==
  {<<FALSE, None>>} \cup
  (IF opened /\ delivered < MaxFrames THEN {<<TRUE, delivered + 1>>} ELSE {})

\* A mutant of SlotAfterRead: the slot keeps the frame it holds.
SlotAfterRead_KeepFirst(old, ret, frame) == IF old # None THEN old ELSE frame

\* "_, self.last_frame = self.vcap.read()": the slot takes the second element
\* of what read() returned, whatever the flag says.
SlotAfterRead(old, ret, frame) == frame

\* frame.copy(): a frame equal to the one in the slot.
CopyOf(frame) == frame

\* main.py, "streamers = [CameraStreamer(f"{RTSP_SERVER}/{idx}") ...]": every
\* streamer of main is built on the URL string of its stream.
streamers == [c \in Cams |-> "url"]

\* The streamers process_stream is handed: those of main.py, or streamers
\* built on the cameras, CameraStreamer(cams[idx]), as the script of
\* stream.py builds its own.
InitStreamers == streamer_cam \in {streamers, [c \in Cams |-> "camera"]}

InitCam ==
  /\ InitStreamers
  /\ vcap_opened \in [Cams -> BOOLEAN]
  /\ captured = [c \in Cams |-> 0]
  /\ last_frame = [c \in Cams |-> None]
  /\ read_ret = [c \in Cams |-> "unset"]
  /\ cap_pc = [c \in Cams |-> "loop"]
  /\ lock = None
  /\ rd_cam \in Cams
  /\ rd_pc = "call"
  /\ rd_result = None

\* _update_frame: "while self.vcap.isOpened()".
CapTest(c) ==
  /\ cap_pc[c] = "loop"
  /\ cap_pc' = [cap_pc EXCEPT ![c] = IF vcap_opened[c] THEN "acquire" ELSE "exit"]
  /\ UNCHANGED <<vcap_opened, captured, last_frame, read_ret, lock, rd_cam, rd_pc, rd_result, streamer_cam>>

\* _update_frame: "with self.lock" entered.
CapAcquire(c) ==
  /\ cap_pc[c] = "acquire"
  /\ lock = None
  /\ lock' = c
  /\ cap_pc' = [cap_pc EXCEPT ![c] = "read"]
  /\ UNCHANGED <<vcap_opened, captured, last_frame, read_ret, rd_cam, rd_pc, rd_result, streamer_cam>>

\* _update_frame: vcap.read() returns, the slot is assigned, the lock released.
CapRead(c) ==
  /\ cap_pc[c] = "read"
  /\ \E r \in VcapRead(vcap_opened[c], captured[c]) :
        /\ last_frame' = [last_frame EXCEPT ![c] = SlotAfterRead(last_frame[c], r[1], r[2])]
        /\ read_ret' = [read_ret EXCEPT ![c] = IF r[1] THEN "true" ELSE "false"]
        /\ captured' = [captured EXCEPT ![c] = IF r[1] THEN r[2] ELSE @]
  /\ lock' = None
  /\ cap_pc' = [cap_pc EXCEPT ![c] = "loop"]
  /\ UNCHANGED <<vcap_opened, rd_cam, rd_pc, rd_result, streamer_cam>>

\* _update_frame: vcap.read() never returns (the lock stays held).
CapBlock(c) ==
  /\ cap_pc[c] = "read"
  /\ vcap_opened[c]
  /\ cap_pc' = [cap_pc EXCEPT ![c] = "blocked"]
  /\ UNCHANGED <<vcap_opened, captured, last_frame, read_ret, lock, rd_cam, rd_pc, rd_result, streamer_cam>>

\* Camera.__del__: vcap.release() closes the device.
Release(c) ==
  /\ vcap_opened[c]
  /\ vcap_opened' = [vcap_opened EXCEPT ![c] = FALSE]
  /\ UNCHANGED <<captured, last_frame, read_ret, cap_pc, lock, rd_cam, rd_pc, rd_result, streamer_cam>>

\* A caller starts its next get_last_frame call.
RdCall ==
  /\ rd_pc = "done"
  /\ rd_pc' = "call"
  /\ rd_result' = None
  /\ UNCHANGED <<vcap_opened, captured, last_frame, read_ret, cap_pc, lock, rd_cam, streamer_cam>>

\* get_last_frame: "if self.last_frame is not None", no lock taken; the else
\* branch returns None.
RdTest ==
  /\ rd_pc = "call"
  /\ rd_pc' = IF last_frame[rd_cam] # None THEN "tested" ELSE "done"
  /\ rd_result' = None
  /\ UNCHANGED <<vcap_opened, captured, last_frame, read_ret, cap_pc, lock, rd_cam, streamer_cam>>

\* get_last_frame: "return self.last_frame.copy()", the slot loaded again;
\* None has no copy(): AttributeError.
RdCopy ==
  /\ rd_pc = "tested"
  /\ IF last_frame[rd_cam] # None
     THEN rd_pc' = "done" /\ rd_result' = CopyOf(last_frame[rd_cam])
     ELSE rd_pc' = "raised" /\ rd_result' = None
  /\ UNCHANGED <<vcap_opened, captured, last_frame, read_ret, cap_pc, lock, rd_cam, streamer_cam>>

\* ------------------------------------------------ pipelines and display
VARIABLES
  stop_event,   \* the shared threading.Event of main()
  frame_queue,  \* the Queue of main(): its entries <<camera_idx, frame>>, oldest first
  pipe_pc,      \* camera -> where its process_stream thread is
  pipe_frame,   \* camera -> the frame its process_stream thread holds
  main_pc       \* where the main thread is

pipeVars == <<stop_event, frame_queue, pipe_pc, pipe_frame, main_pc>>

\* "Queue(maxsize=N_CAMS * 2)".
maxsize == N_CAMS * 2

\* A mutant of QueuePut: a full queue gives up its oldest entry.
QueuePut_DropOldest(q, item) ==
  IF Len(q) < maxsize THEN Append(q, item) ELSE Append(Tail(q), item)

\* "frame_queue.put(item, block=False)" inside "try: ... except: pass": the
\* item is appended when there is room, queue.Full is swallowed otherwise.
QueuePut(q, item) == IF Len(q) < maxsize THEN Append(q, item) ELSE q

\* main() after it has started one process_stream thread per camera, each
\* handed the streamer of its index.
InitPipe ==
  /\ stop_event = FALSE
  /\ frame_queue = <<>>
  /\ pipe_pc = [c \in Cams |-> "poll"]
  /\ pipe_frame = [c \in Cams |-> None]
  /\ main_pc = "display"

\* CameraStreamer.__call__: "frame = self.cam.get_last_frame()", the test of
\* get_last_frame; an empty slot returns None and "while True" polls again.
\* A string has no get_last_frame: on the streamer of a URL the call raises
\* AttributeError, which nothing in process_stream catches, and the thread ends.
PipePoll(c) ==
  /\ pipe_pc[c] = "poll"
  /\ pipe_pc' = [pipe_pc EXCEPT ![c] =
                   IF streamer_cam[c] = "url" THEN "raised"
                   ELSE IF last_frame[c] # None THEN "copy" ELSE "poll"]
  /\ UNCHANGED <<stop_event, frame_queue, pipe_frame, main_pc>>

\* get_last_frame: "return self.last_frame.copy()", then "yield frame"; the
\* slot emptied since the test raises AttributeError in the thread.
PipeCopy(c) ==
  /\ pipe_pc[c] = "copy"
  /\ IF last_frame[c] # None
     THEN /\ pipe_pc' = [pipe_pc EXCEPT ![c] = "yielded"]
          /\ pipe_frame' = [pipe_frame EXCEPT ![c] = CopyOf(last_frame[c])]
     ELSE /\ pipe_pc' = [pipe_pc EXCEPT ![c] = "raised"]
          /\ pipe_frame' = pipe_frame
  /\ UNCHANGED <<stop_event, frame_queue, main_pc>>

\* What a handle_frame call ends with: the annotated frame, or the exception
\* of a save_alert call of its detectors (or of the model).
Handled == {"returned", "raised"}

\* process_stream: "if stop_event.is_set(): break", else handle_frame, which
\* gives the annotated frame or raises; nothing in process_stream catches the
\* exception and the thread ends with it.
PipeStopCheck(c, handled) ==
  /\ pipe_pc[c] = "yielded"
  /\ IF stop_event
     THEN /\ pipe_pc' = [pipe_pc EXCEPT ![c] = "exited"]
          /\ pipe_frame' = [pipe_frame EXCEPT ![c] = None]
     ELSE IF handled = "raised"
     THEN /\ pipe_pc' = [pipe_pc EXCEPT ![c] = "raised"]
          /\ pipe_frame' = [pipe_frame EXCEPT ![c] = None]
     ELSE /\ pipe_pc' = [pipe_pc EXCEPT ![c] = "put"]
          /\ pipe_frame' = pipe_frame
  /\ UNCHANGED <<stop_event, frame_queue, main_pc>>

\* process_stream: the put of (camera_idx, annotated_frame).
PipePut(c) ==
  /\ pipe_pc[c] = "put"
  /\ frame_queue' = QueuePut(frame_queue, <<c, pipe_frame[c]>>)
  /\ pipe_pc' = [pipe_pc EXCEPT ![c] = IF Len(frame_queue) < maxsize THEN "queued" ELSE "dropped"]
  /\ UNCHANGED <<stop_event, pipe_frame, main_pc>>

\* The generator resumed after its yield: back to "while True" (the frame
\* counter and fps of the lines between are FeedResume's).
PipeResume(c) ==
  /\ pipe_pc[c] \in {"queued", "dropped"}
  /\ pipe_pc' = [pipe_pc EXCEPT ![c] = "poll"]
  /\ pipe_frame' = [pipe_frame EXCEPT ![c] = None]
  /\ UNCHANGED <<stop_event, frame_queue, main_pc>>

\* main: "if not frame_queue.empty(): ... frame_queue.get()" and imshow.
MainShow ==
  /\ main_pc = "display"
  /\ frame_queue # <<>>
  /\ frame_queue' = Tail(frame_queue)
  /\ UNCHANGED <<stop_event, pipe_pc, pipe_frame, main_pc>>

\* main leaves its display loop: by the key 'q' or a KeyboardInterrupt whose
\* except clause runs "stop_event.set()" (flagged), or with the flag never
\* set: a further KeyboardInterrupt inside the print of the except clause, or
\* an exception of the try block that is no KeyboardInterrupt (cv2.error of
\* imshow or waitKey), which goes to the finally clause directly.
MainQuit(flagged) ==
  /\ main_pc = "display"
  /\ stop_event' = (stop_event \/ flagged)
  /\ main_pc' = "stopped"
  /\ UNCHANGED <<frame_queue, pipe_pc, pipe_frame>>

\* ------------------------------------------- main.py: main, step by step
VARIABLES
  joined       \* the number of threads the "finally" of main has joined

shutVars == <<joined>>

\* main before its finally clause.
InitShut == joined = 0

\* A mutant of JoinReturns: join has no timeout.
JoinReturns_NoTimeout(c) == pipe_pc[c] \in {"exited", "raised"}

\* "thread.join(timeout=2.0)" returns: the thread has ended, or two seconds
\* have passed.
JoinReturns(c) == TRUE

\* main: "while not stop_event.is_set()" and "if not frame_queue.empty()".
MainTest ==
  /\ main_pc = "display"
  /\ main_pc' = IF stop_event THEN "join"
                ELSE IF frame_queue # <<>> THEN "get" ELSE "key"
  /\ UNCHANGED <<stop_event, frame_queue, pipe_pc, pipe_frame, joined>>

\* main: "frame_queue.get()", which waits while the queue is empty, and imshow.
MainGet ==
  /\ main_pc = "get"
  /\ frame_queue # <<>>
  /\ frame_queue' = Tail(frame_queue)
  /\ main_pc' = "key"
  /\ UNCHANGED <<stop_event, pipe_pc, pipe_frame, joined>>

\* main: "key = cv2.waitKey(1) & 0xFF": 'q' sets the stop flag and leaves the
\* loop, anything else goes round.
MainKey(quit) ==
  /\ main_pc = "key"
  /\ stop_event' = (stop_event \/ quit)
  /\ main_pc' = IF quit THEN "join" ELSE "display"
  /\ UNCHANGED <<frame_queue, pipe_pc, pipe_frame, joined>>

\* What becomes of the except clause of main: it runs to its end, or a
\* further KeyboardInterrupt is raised inside it, during the print before
\* "stop_event.set()" or after the flag is set; or the exception of the try
\* block is no KeyboardInterrupt and no except clause runs ("uncaught").
Handlers == {"handled", "in_print", "after_set", "uncaught"}

\* main: an exception anywhere in the try block.  For KeyboardInterrupt the
\* except clause prints and runs "stop_event.set()", then the finally clause
\* runs.  An exception raised inside the except clause, or one the except
\* clause does not name, is pending while the finally clause runs
\* ("join_exc").
MainInterrupt(handler) ==
  /\ main_pc \in {"display", "get", "key"}
  /\ stop_event' = (stop_event \/ handler \in {"handled", "after_set"})
  /\ main_pc' = IF handler = "handled" THEN "join" ELSE "join_exc"
  /\ UNCHANGED <<frame_queue, pipe_pc, pipe_frame, joined>>

\* main, finally: KeyboardInterrupt while main waits in
\* "thread.join(timeout=2.0)" or runs the lines after the loop: nothing
\* catches it, main ends with the exception, the remaining threads are not
\* joined, destroyAllWindows is not called and nothing more is printed.
MainInterruptFinally ==
  /\ main_pc \in {"join", "join_exc"}
  /\ main_pc' = "interrupted"
  /\ UNCHANGED <<stop_event, frame_queue, pipe_pc, pipe_frame, joined>>

\* main, finally: "thread.join(timeout=2.0)" of the next thread returns.
MainJoin ==
  /\ main_pc \in {"join", "join_exc"}
  /\ joined < N_CAMS
  /\ JoinReturns(joined)
  /\ joined' = joined + 1
  /\ UNCHANGED <<stop_event, frame_queue, pipe_pc, pipe_frame, main_pc>>

\* main, finally: every thread joined, destroyAllWindows and "All streams
\* stopped"; then main returns, or the exception of the except clause is
\* raised out of main.
MainEnd ==
  /\ main_pc \in {"join", "join_exc"}
  /\ joined = N_CAMS
  /\ main_pc' = IF main_pc = "join" THEN "done" ELSE "reraised"
  /\ UNCHANGED <<stop_event, frame_queue, pipe_pc, pipe_frame, joined>>

\* ---------------------------------------------- alerts.py: the alert store
VARIABLES
  db,        \* the alerts table: its committed rows in insertion order
  notified,  \* the bag of (camera_id, alert_type, track_id, timestamp) that
             \* trigger_alert was invoked with
  files,     \* the snapshot files that exist under SNAPSHOTS_DIR
  clock,     \* datetime.now(), in half seconds
  n_saves,   \* the number of save_alert calls made
  last_op,   \* the last call on the store that has ended: its arguments and
             \* what it did
  calls      \* thread -> the save_alert call it is inside: the statement the
             \* call is at ("idle" outside a call) and the call's locals

alertVars == <<db, notified, files, clock, n_saves, last_op, calls>>

\* The clock is read up to tick MaxSaves.
MaxClock == MaxSaves

\* datetime.now().isoformat(): the text of the time; a time of whole seconds
\* prints without its fraction ("...:01" against "...:01.500000").
isoformat(k) == IF k % 2 = 0 THEN <<k \div 2>> ELSE <<k \div 2, 5>>

\* The order of two TEXT values in "ORDER BY timestamp": character by
\* character, a proper prefix first.
RECURSIVE TextLess(_, _)
TextLess(a, b) ==
  IF b = <<>> THEN FALSE
  ELSE IF a = <<>> THEN TRUE
  ELSE IF a[1] # b[1] THEN a[1] < b[1]
  ELSE TextLess(Tail(a), Tail(b))

\* str(SNAPSHOTS_DIR / f"cam{camera_id}_{alert_type}_track{track_id}_{timestamp}.jpg"):
\* the path is the tuple of the parts of its name.
SnapshotPath(camera_id, alert_type, track_id, timestamp) ==
  <<camera_id, alert_type, track_id, timestamp>>

\* "snapshot_path = None": no path (a path is a tuple, never the empty one).
NoPath == <<>>

\* save_alert: "snapshot_path = None; if frame is not None: snapshot_path = ...".
SnapshotOf(camera_id, alert_type, track_id, frame, timestamp) ==
  IF frame # None THEN SnapshotPath(camera_id, alert_type, track_id, timestamp) ELSE NoPath

\* The row of the INSERT; id is the AUTOINCREMENT key.
NewRow(table, camera_id, alert_type, track_id, timestamp, snapshot_path, details) ==
  [id |-> Len(table) + 1, camera_id |-> camera_id, alert_type |-> alert_type,
   track_id |-> track_id, timestamp |-> timestamp,
   snapshot_path |-> snapshot_path, details |-> details]

\* The arguments save_alert gets; a details string is the number of its text.
AlertCams == {0, 1}
AlertTypes == {"danger_zone", "no_helmet"}
AlertTracks == {None, 1}
AlertFrames == {None, 1}
AlertDetails == {None, 1}

\* No call in progress.
Idle == [pc |-> "idle"]

InitAlert ==
  /\ db = <<>>
  /\ notified = EmptyBag
  /\ files = {}
  /\ clock = 0
  /\ n_saves = 0
  /\ last_op = [op |-> "none"]
  /\ calls = [k \in AlertCams |-> Idle]

\* Time passes.
Tick ==
  /\ clock < MaxClock
  /\ clock' = clock + 1
  /\ UNCHANGED <<db, notified, files, n_saves, last_op, calls>>

\* What a save_alert call that has ended leaves in last_op.
SaveEnded(call, outcome) ==
  [op |-> "save", camera_id |-> call.camera_id, alert_type |-> call.alert_type,
   track_id |-> call.track_id, frame |-> call.frame, details |-> call.details,
   timestamp |-> call.timestamp, outcome |-> outcome]

\* save_alert(camera_id, alert_type, track_id, frame, details) called by the
\* thread of camera camera_id: connect, cursor and "timestamp =
\* datetime.now().isoformat()", "snapshot_path = None".
SaveAlert(camera_id, alert_type, track_id, frame, details) ==
  /\ n_saves < MaxSaves
  /\ calls[camera_id] = Idle
  /\ n_saves' = n_saves + 1
  /\ calls' = [calls EXCEPT ![camera_id] =
                 [pc |-> "snapshot", camera_id |-> camera_id, alert_type |-> alert_type,
                  track_id |-> track_id, frame |-> frame, details |-> details,
                  timestamp |-> isoformat(clock)]]
  /\ UNCHANGED <<db, notified, files, clock, last_op>>

\* save_alert: "if frame is not None: ... cv2.imwrite(snapshot_path, frame)";
\* written is what cv2.imwrite returns, which the code does not look at.
SaveSnapshot(k, written) ==
  /\ calls[k].pc = "snapshot"
  /\ LET call == calls[k]
         snapshot_path == SnapshotOf(call.camera_id, call.alert_type, call.track_id,
                                     call.frame, call.timestamp)
     IN  files' = IF call.frame # None /\ written THEN files \cup {snapshot_path} ELSE files
  /\ calls' = [calls EXCEPT ![k].pc = "insert"]
  /\ UNCHANGED <<db, notified, clock, n_saves, last_op>>

\* save_alert: the INSERT, "conn.commit()" and "conn.close()"; when one of
\* the first two raises, the call ends with that exception.
SaveInsert(k, outcome) ==
  /\ calls[k].pc = "insert"
  /\ outcome \in Outcomes \ {"notify_failed"}
  /\ LET call == calls[k]
         snapshot_path == SnapshotOf(call.camera_id, call.alert_type, call.track_id,
                                     call.frame, call.timestamp)
     IN  /\ db' = IF Committed(outcome)
                  THEN Append(db, NewRow(db, call.camera_id, call.alert_type, call.track_id,
                                         call.timestamp, snapshot_path, call.details))
                  ELSE db
         /\ IF Triggered(outcome)
            THEN calls' = [calls EXCEPT ![k].pc = "trigger"] /\ last_op' = last_op
            ELSE calls' = [calls EXCEPT ![k] = Idle] /\ last_op' = SaveEnded(call, outcome)
  /\ UNCHANGED <<notified, files, clock, n_saves>>

\* trigger_alert(camera_id, alert_type, track_id, timestamp): the
\* notification is out when its prints went through.
trigger_alert(bag, camera_id, alert_type, track_id, timestamp, outcome) ==
  IF Returned(outcome)
  THEN bag (+) SetToBag({<<camera_id, alert_type, track_id, timestamp>>})
  ELSE bag

\* save_alert: "trigger_alert(camera_id, alert_type, track_id, timestamp)",
\* its last statement: the call returns, or ends with the exception of a print.
SaveTrigger(k, outcome) ==
  /\ calls[k].pc = "trigger"
  /\ outcome \in {"ok", "notify_failed"}
  /\ LET call == calls[k]
     IN  /\ notified' = trigger_alert(notified, call.camera_id, call.alert_type,
                                      call.track_id, call.timestamp, outcome)
         /\ last_op' = SaveEnded(call, outcome)
  /\ calls' = [calls EXCEPT ![k] = Idle]
  /\ UNCHANGED <<db, files, clock, n_saves>>

\* trigger_alert called on its own, as any importer of alerts.py may: at most
\* MaxSaves notifications are out.
TriggerAlert(camera_id, alert_type, track_id, timestamp, outcome) ==
  /\ BagCardinality(notified) < MaxSaves
  /\ notified' = trigger_alert(notified, camera_id, alert_type, track_id, timestamp, outcome)
  /\ last_op' = [op |-> "trigger", camera_id |-> camera_id, alert_type |-> alert_type,
                 track_id |-> track_id, timestamp |-> timestamp, outcome |-> outcome]
  /\ UNCHANGED <<db, files, clock, n_saves, calls>>

\* get_recent_alerts: "if camera_id is not None: ... WHERE camera_id = ?".
RowFilter(row, camera_id) == camera_id = None \/ row.camera_id = camera_id

\* A mutant of OrderedBy: ORDER BY timestamp ASC.
OrderedBy_Asc(first, second) == ~ TextLess(second, first)

\* "ORDER BY timestamp DESC": first may stand before second.
OrderedBy(first, second) == ~ TextLess(first, second)

\* "LIMIT ?": the first limit rows; a negative limit is no limit.
LimitRows(rows, limit) ==
  IF limit < 0 \/ limit >= Len(rows) THEN rows ELSE SubSeq(rows, 1, limit)

\* The results get_recent_alerts may return: the rows the WHERE clause keeps,
\* in any order ORDER BY allows (rows of equal timestamp come in either
\* order), cut by LIMIT.
get_recent_alerts(table, camera_id, limit) ==
  LET kept == {i \in DOMAIN table : RowFilter(table[i], camera_id)}
      orders == {o \in [1..Cardinality(kept) -> kept] :
                   /\ \A i, j \in DOMAIN o : i # j => o[i] # o[j]
                   /\ \A i \in DOMAIN o : i < Len(o) =>
                         OrderedBy(table[o[i]].timestamp, table[o[i + 1]].timestamp)}
  IN  {LimitRows([i \in DOMAIN o |-> table[o[i]]], limit) : o \in orders}

\* get_recent_alerts(camera_id, limit) called and returning.
GetRecentAlerts(camera_id, limit) ==
  /\ \E result \in get_recent_alerts(db, camera_id, limit) :
        last_op' = [op |-> "query", camera_id |-> camera_id, limit |-> limit,
                    result |-> result, size |-> Len(db)]
  /\ UNCHANGED <<db, notified, files, clock, n_saves, calls>>

\* ------------------------------------------------------- detectors: state
VARIABLES
  alerted_tracks,  \* detector instance -> its alerted_tracks set
  alerts,          \* the alerts table: the bag of its rows
  last             \* the last check call: its detector, the track ids that
                   \* violated in it and the detector's alerted_tracks before it

detVars == <<alerted_tracks, alerts, last>>

NoDetector == <<None, "none">>

InitDet ==
  /\ alerted_tracks = [d \in Detectors |-> {}]
  /\ alerts = EmptyBag
  /\ last = [det |-> NoDetector, viol |-> {}, pre |-> {}, raised |-> FALSE]

\* A check call ends with the save_alert call of the fault raising, when it
\* gets that far: a fault is one that the call meets, and a call that leaves a
\* row behind as it raises is made while the table holds fewer than MaxRows rows.
Meets(r, fault) ==
  /\ (fault.at > 0) = r.raised
  /\ (r.raised /\ Committed(fault.how)) => BagCardinality(r.table) <= MaxRows

\* DangerZoneDetector.check_zone on the detector of camera c: the call
\* returns, or it ends with the exception of one of its save_alert calls.
CheckZone(c, boxes, fault) ==
  /\ <<c, "danger_zone">> \in Detectors
  /\ LET d == <<c, "danger_zone">>
         r == check_zone(CallState(alerted_tracks[d], alerts),
                         c, DANGER_ZONES[c], boxes, fault)
     IN  /\ Meets(r, fault)
         /\ alerted_tracks' = [alerted_tracks EXCEPT ![d] = r.alerted]
         /\ alerts' = r.table
         /\ last' = [det |-> d, viol |-> Violators(d, boxes), pre |-> alerted_tracks[d],
                     raised |-> r.raised]

\* NoHelmetDetector.check_helmet on the detector of camera c: the call
\* returns, or it ends with the exception of one of its save_alert calls.
CheckHelmet(c, boxes, fault) ==
  /\ <<c, "helmet">> \in Detectors
  /\ LET d == <<c, "helmet">>
         r == check_helmet(CallState(alerted_tracks[d], alerts), c, boxes, fault)
     IN  /\ Meets(r, fault)
         /\ alerted_tracks' = [alerted_tracks EXCEPT ![d] = r.alerted]
         /\ alerts' = r.table
         /\ last' = [det |-> d, viol |-> Violators(d, boxes), pre |-> alerted_tracks[d],
                     raised |-> r.raised]

\* ------------------------------------ stream.py: the feed's frame counter
VARIABLES
  fps,          \* CameraStreamer.fps, frames per second: the fraction <<n, d>> is n / d
  frame_count,  \* frame_count of the running __call__
  start_time,   \* start_time of the running __call__
  wall,          \* time.time(), in ticks
  feed_pc       \* where the generator is: "poll" or "yielded"

feedVars == <<fps, frame_count, start_time, wall, feed_pc>>

\* One second ("1.0"), in ticks.
Second == 2

\* A mutant of WindowOver: a window of exactly one second is not over.
WindowOver_Strict(elapsed_time) == elapsed_time > Second

\* "if elapsed_time >= 1.0".
WindowOver(elapsed_time) == elapsed_time >= Second

\* "frame_count / elapsed_time", the elapsed time in ticks: count frames in
\* elapsed_time / Second seconds.
FpsOf(count, elapsed_time) == <<count * Second, elapsed_time>>

\* CameraStreamer.__init__ ("self.fps = 0") and the first lines of __call__
\* ("frame_count = 0", "start_time = time.time()").
InitFeed ==
  /\ fps = <<0, 1>>
  /\ frame_count = 0
  /\ start_time = 0
  /\ wall = 0
  /\ feed_pc = "poll"

\* Half a second passes.
FeedTick ==
  /\ wall < MaxTime
  /\ wall' = wall + 1
  /\ UNCHANGED <<fps, frame_count, start_time, feed_pc>>

\* "frame = self.cam.get_last_frame()" on the streamer of a Camera: None and
\* the loop polls again, or a frame and "yield frame".
FeedPoll(frame) ==
  /\ feed_pc = "poll"
  /\ streamer_cam[0] = "camera"
  /\ frame_count < MaxCount
  /\ feed_pc' = IF frame # None THEN "yielded" ELSE "poll"
  /\ UNCHANGED <<fps, frame_count, start_time, wall>>

\* The generator resumed: "frame_count += 1", the elapsed time read, and when
\* the window is over fps written, the counter reset and the clock read again
\* (at reset_time) for the next window.
FeedResume(reset_time) ==
  /\ feed_pc = "yielded"
  /\ LET elapsed_time == wall - start_time
     IN  IF WindowOver(elapsed_time)
         THEN /\ fps' = FpsOf(frame_count + 1, elapsed_time)
              /\ frame_count' = 0
              /\ start_time' = reset_time
              /\ wall' = reset_time
         ELSE /\ reset_time = wall
              /\ frame_count' = frame_count + 1
              /\ UNCHANGED <<fps, start_time, wall>>
  /\ feed_pc' = "poll"

\* ------------------------------------------- check_helmet on chosen frames
VARIABLES
  seen         \* results[0].boxes of the last check call made with a chosen frame

seenVars == <<seen>>

\* No check call made yet.
RestSeen == seen = <<>>

\* A person box and helmet boxes around its head area: the head area of the
\* person ends at y = 100 + 0.3 * (300 - 100) = 160.  One helmet over the head,
\* one below it, one that only just reaches into it, and one touching each of
\* the four limits of the test from outside.
PersonBox == <<100, 100, 200, 300>>
HelmetCases ==
  { <<110, 80, 190, 160>>, <<110, 200, 190, 260>>, <<110, 159, 190, 200>>,
    <<110, 160, 190, 200>>, <<110, 40, 190, 100>>,
    <<200, 80, 280, 160>>, <<20, 80, 100, 160>> }

\* The helmets of the frames that hold two of them: the one over the head,
\* the one below it and the one that touches the head area from below.
HelmetPairs == { <<110, 80, 190, 160>>, <<110, 200, 190, 260>>, <<110, 160, 190, 200>> }

\* The frames: one person (any track id or none) and no, one or two helmets,
\* the person first or last in results[0].boxes.
HelmetSeqs ==
  UNION {[1..n -> [cls : {0}, id : {None}, xyxy : HelmetCases]] : n \in 0..1}
    \cup [1..2 -> [cls : {0}, id : {None}, xyxy : HelmetPairs]]
HelmetFrames ==
  {<<p>> \o hs : p \in [cls : {2}, id : TrackIds \cup {None}, xyxy : {PersonBox}], hs \in HelmetSeqs}
    \cup {hs \o <<p>> : p \in [cls : {2}, id : TrackIds \cup {None}, xyxy : {PersonBox}], hs \in HelmetSeqs}

\* What the save_alert of a call with one of these frames runs into: a frame
\* holds one person, so the call makes one save_alert call at most, which
\* returns, raises at its INSERT or raises at its notification.
FrameFaults == {f \in SaveFaults : f.at <= 1 /\ f.how # "commit_failed"}

\* --------------------------------------------- check_zone on chosen frames
\* The zone polygon of a DangerZoneDetector built with the square of side 10.
SquareZone == << <<0, 0>>, <<10, 0>>, <<10, 10>>, <<0, 10>> >>

\* Points in, on and around the square.
ZonePoints ==
  { <<5, 5>>, <<15, 5>>, <<0, 5>>, <<10, 10>>, <<11, 5>>, <<5, 11>>, <<-1, 5>> }

\* Boxes around a point: one whose corner sums are even (the point is its
\* centre) and one whose corner sums are odd (int() truncates its centre).
BoxesAround(pt) ==
  { <<pt[1] - 2, pt[2] - 3, pt[1] + 2, pt[2] + 3>>,
    <<pt[1] - 2, pt[2] - 3, pt[1] + 3, pt[2] + 4>> }

\* The frames: one box, a person with any track id or none, or a helmet in
\* the middle of the square.
ZoneFrames ==
  {<<b>> : b \in [cls : {2}, id : TrackIds \cup {None},
                  xyxy : UNION {BoxesAround(pt) : pt \in ZonePoints}]}
    \cup {<<[cls |-> 0, id |-> 1, xyxy |-> <<3, 2, 7, 8>>]>>}

\* DangerZoneDetector(camera_id=0, zone_polygon=zone).check_zone(results, frame).
CheckZoneOf(zone, boxes, fault) ==
  LET d == <<0, "danger_zone">>
      r == check_zone(CallState(alerted_tracks[d], alerts), 0, zone, boxes, fault)
  IN  /\ Meets(r, fault)
      /\ alerted_tracks' = [alerted_tracks EXCEPT ![d] = r.alerted]
      /\ alerts' = r.table
      /\ last' = [det |-> d,
                  viol |-> {boxes[i].id : i \in {j \in 1..Len(boxes) : ZoneViolation(zone, boxes[j])}},
                  pre |-> alerted_tracks[d],
                  raised |-> r.raised]
      /\ seen' = boxes

\* ------------------------------------- main.py: the detectors in the threads
VARIABLES
  old_alerts,  \* the rows alerts.db held when this process started
  w_pc,        \* thread -> where its handle_frame is: "idle", "zone",
               \* "zone_add", "helmet", "helmet_add", or "raised"
  w_results,   \* thread -> the results of model.track for its frame
  w_todo       \* thread -> the boxes the running check call has yet to visit

wireVars == <<old_alerts, w_pc, w_results, w_todo>>

\* A mutant of DetectorsOf: every thread is handed the detectors of camera 0.
DetectorsOf_Shared(camera_idx) == {<<0, k>> : k \in camera_detectors[0]}

\* process_stream: "detectors = camera_detectors.get(camera_idx, {})".
DetectorsOf(camera_idx) ==
  IF camera_idx \in DOMAIN camera_detectors
  THEN {<<camera_idx, k>> : k \in camera_detectors[camera_idx]}
  ELSE {}

\* A mutant of DetectorAt: the detectors of a camera are one instance.
DetectorAt_OneSet(c, key) == CHOOSE d \in DetectorsOf(c) : TRUE

\* detectors[key] of thread c, where there is one.
DetectorAt(c, key) == CHOOSE d \in DetectorsOf(c) : d[2] = key

\* What the tracker hands to a thread here: no box, or one person with track
\* id 1 or 2 standing in the zone of the thread's camera, no helmet in sight
\* (the frames of several boxes are SpecDet's).
WireTracks == {1, 2}

WireResults(c) ==
  {<<>>} \cup {<<[cls |-> 2, id |-> track_id, xyxy |-> NearBox(c)]>> : track_id \in WireTracks}

\* A row an earlier run of the program left in alerts.db.
OldRow ==
  [camera_id |-> 0, alert_type |-> "danger_zone", track_id |-> 1,
   details |-> <<"Person entered danger zone at",
                 Center(NearBox(0))[1], Center(NearBox(0))[2]>>]

\* The process after import: alerts.db as the runs before left it ("CREATE
\* TABLE IF NOT EXISTS"), the detectors new, every thread before its first frame.
InitWire ==
  /\ old_alerts \in {EmptyBag, SetToBag({OldRow})}
  /\ alerts = old_alerts
  /\ alerted_tracks = [d \in Detectors |-> {}]
  /\ last = [det |-> NoDetector, viol |-> {}, pre |-> {}, raised |-> FALSE]
  /\ w_pc = [c \in Cams |-> "idle"]
  /\ w_results = [c \in Cams |-> <<>>]
  /\ w_todo = [c \in Cams |-> <<>>]

\* The threads idle, the table new.
RestWire ==
  /\ old_alerts = EmptyBag
  /\ w_pc = [c \in Cams |-> "idle"]
  /\ w_results = [c \in Cams |-> <<>>]
  /\ w_todo = [c \in Cams |-> <<>>]

\* handle_frame: "results = model.track(...)", then the test of line 64; a
\* thread gets to handle_frame with the frames of a Camera's streamer.
WireTrack(c, boxes) ==
  /\ w_pc[c] = "idle"
  /\ streamer_cam[c] = "camera"
  /\ w_results' = [w_results EXCEPT ![c] = boxes]
  /\ w_todo' = [w_todo EXCEPT ![c] = boxes]
  /\ w_pc' = [w_pc EXCEPT ![c] = "zone"]
  /\ UNCHANGED <<alerted_tracks, alerts, last, old_alerts>>

\* check_zone: one box visited, up to and with its save_alert; without a
\* "danger_zone" detector, or with every box visited, on to line 68.
WireZoneStep(c) ==
  /\ w_pc[c] = "zone"
  /\ IF (\E d \in DetectorsOf(c) : d[2] = "danger_zone") /\ w_todo[c] # <<>>
     THEN LET d == DetectorAt(c, "danger_zone")
              r == ZoneBoxStep(CallState(alerted_tracks[d], alerts),
                               d[1], DANGER_ZONES[d[1]], Head(w_todo[c]), NoFault)
          IN  /\ alerts' = r.table
              /\ IF r.saves > 0
                 THEN w_pc' = [w_pc EXCEPT ![c] = "zone_add"] /\ w_todo' = w_todo
                 ELSE w_pc' = w_pc /\ w_todo' = [w_todo EXCEPT ![c] = Tail(@)]
     ELSE /\ w_pc' = [w_pc EXCEPT ![c] = "helmet"]
          /\ w_todo' = [w_todo EXCEPT ![c] = PersonBoxes(w_results[c])]
          /\ alerts' = alerts
  /\ UNCHANGED <<alerted_tracks, last, old_alerts, w_results>>

\* check_zone: "self.alerted_tracks.add(track_id)" after the save_alert.
WireZoneAdd(c) ==
  /\ w_pc[c] = "zone_add"
  /\ LET d == DetectorAt(c, "danger_zone")
     IN  alerted_tracks' = [alerted_tracks EXCEPT ![d] = AddTrack(@, Head(w_todo[c]).id)]
  /\ w_todo' = [w_todo EXCEPT ![c] = Tail(@)]
  /\ w_pc' = [w_pc EXCEPT ![c] = "zone"]
  /\ UNCHANGED <<alerts, last, old_alerts, w_results>>

\* check_helmet: one person box visited, up to and with its save_alert;
\* without a "helmet" detector, or with every person visited, handle_frame
\* returns.
WireHelmetStep(c) ==
  /\ w_pc[c] = "helmet"
  /\ IF (\E d \in DetectorsOf(c) : d[2] = "helmet") /\ w_todo[c] # <<>>
     THEN LET d == DetectorAt(c, "helmet")
              r == HelmetBoxStep(CallState(alerted_tracks[d], alerts),
                                 d[1], HelmetBoxes(w_results[c]), Head(w_todo[c]), NoFault)
          IN  /\ alerts' = r.table
              /\ IF r.saves > 0
                 THEN w_pc' = [w_pc EXCEPT ![c] = "helmet_add"] /\ w_todo' = w_todo
                 ELSE w_pc' = w_pc /\ w_todo' = [w_todo EXCEPT ![c] = Tail(@)]
              /\ w_results' = w_results
     ELSE /\ w_pc' = [w_pc EXCEPT ![c] = "idle"]
          /\ w_todo' = [w_todo EXCEPT ![c] = <<>>]
          /\ w_results' = [w_results EXCEPT ![c] = <<>>]
          /\ alerts' = alerts
  /\ UNCHANGED <<alerted_tracks, last, old_alerts>>

\* check_helmet: "self.alerted_tracks.add(track_id)" after the save_alert.
WireHelmetAdd(c) ==
  /\ w_pc[c] = "helmet_add"
  /\ LET d == DetectorAt(c, "helmet")
     IN  alerted_tracks' = [alerted_tracks EXCEPT ![d] = AddTrack(@, Head(w_todo[c]).id)]
  /\ w_todo' = [w_todo EXCEPT ![c] = Tail(@)]
  /\ w_pc' = [w_pc EXCEPT ![c] = "helmet"]
  /\ UNCHANGED <<alerts, last, old_alerts, w_results>>

\* The box step of thread c's running check call with a save_alert that ends
\* as how says.
WireBoxStep(c, how) ==
  LET key == IF w_pc[c] = "zone" THEN "danger_zone" ELSE "helmet"
      d == DetectorAt(c, key)
      fault == [at |-> 1, how |-> how]
  IN  IF key = "danger_zone"
      THEN ZoneBoxStep(CallState(alerted_tracks[d], alerts),
                       d[1], DANGER_ZONES[d[1]], Head(w_todo[c]), fault)
      ELSE HelmetBoxStep(CallState(alerted_tracks[d], alerts),
                         d[1], HelmetBoxes(w_results[c]), Head(w_todo[c]), fault)

\* A mutant of WireSaveRaises: the track is recorded although save_alert raised.
WireSaveRaises_Recorded(c, how) ==
  /\ w_pc[c] \in {"zone", "helmet"}
  /\ w_todo[c] # <<>>
  /\ LET key == IF w_pc[c] = "zone" THEN "danger_zone" ELSE "helmet"
     IN  /\ \E d \in DetectorsOf(c) : d[2] = key
         /\ WireBoxStep(c, how).raised
         /\ alerts' = WireBoxStep(c, how).table
         /\ alerted_tracks' = [alerted_tracks EXCEPT ![DetectorAt(c, key)] =
                                  AddTrack(@, Head(w_todo[c]).id)]
  /\ w_pc' = [w_pc EXCEPT ![c] = "raised"]
  /\ UNCHANGED <<last, old_alerts, w_results, w_todo>>

\* save_alert raises in a check call: before its commit (the INSERT or the
\* commit fails) with no row, or after it (the notification fails) with the
\* row in the table; in both the add is not reached, nothing in
\* process_stream catches the exception and the thread ends.
WireSaveRaises(c, how) ==
  /\ w_pc[c] \in {"zone", "helmet"}
  /\ w_todo[c] # <<>>
  /\ LET key == IF w_pc[c] = "zone" THEN "danger_zone" ELSE "helmet"
     IN  /\ \E d \in DetectorsOf(c) : d[2] = key
         /\ WireBoxStep(c, how).raised
         /\ alerts' = WireBoxStep(c, how).table
         /\ alerted_tracks' = [alerted_tracks EXCEPT ![DetectorAt(c, key)] =
                                  WireBoxStep(c, how).alerted]
  /\ w_pc' = [w_pc EXCEPT ![c] = "raised"]
  /\ UNCHANGED <<last, old_alerts, w_results, w_todo>>

\* SpecDet: any sequence of check calls on one detector instance (any of the
\* four of main.py): the first call picks the instance, the later ones go to it.
SameInstance(d) == last.det \in {NoDetector, d}

NextDet ==
  \/ \E c \in {0, 1, 2} : \E boxes \in Results(c) : \E fault \in SaveFaults :
        SameInstance(<<c, "danger_zone">>) /\ CheckZone(c, boxes, fault) /\ UNCHANGED <<camVars, pipeVars, alertVars, wireVars, seenVars, feedVars, shutVars>>
  \/ \E c \in {0, 1, 2} : \E boxes \in Results(c) : \E fault \in SaveFaults :
        SameInstance(<<c, "helmet">>) /\ CheckHelmet(c, boxes, fault) /\ UNCHANGED <<camVars, pipeVars, alertVars, wireVars, seenVars, feedVars, shutVars>>

\* The cameras before any thread has run, with every device open.
RestSlots ==
  /\ vcap_opened = [c \in Cams |-> TRUE]
  /\ captured = [c \in Cams |-> 0]
  /\ last_frame = [c \in Cams |-> None]
  /\ read_ret = [c \in Cams |-> "unset"]
  /\ cap_pc = [c \in Cams |-> "loop"]
  /\ lock = None
  /\ rd_cam = 0
  /\ rd_pc = "call"
  /\ rd_result = None

\* The same with the streamers of main.py.
RestCam == RestSlots /\ streamer_cam = streamers

vars == <<detVars, camVars, pipeVars, alertVars, wireVars, seenVars, feedVars, shutVars>>

InitDetSpec == InitDet /\ RestCam /\ InitPipe /\ InitAlert /\ RestWire /\ RestSeen /\ InitFeed /\ InitShut

SpecDet == InitDetSpec /\ [][NextDet]_vars

\* SpecHelm: any sequence of check_helmet calls on one NoHelmetDetector (of
\* camera 0 or of camera 2) with the frames of HelmetFrames.
NextHelm ==
  \E c \in {0, 2} : \E boxes \in HelmetFrames : \E fault \in FrameFaults :
     /\ SameInstance(<<c, "helmet">>)
     /\ CheckHelmet(c, boxes, fault)
     /\ seen' = boxes
     /\ UNCHANGED <<camVars, pipeVars, alertVars, wireVars, feedVars, shutVars>>

SpecHelm == InitDetSpec /\ [][NextHelm]_vars

\* SpecZone: any sequence of check_zone calls on a DangerZoneDetector built
\* with the square zone, with the frames of ZoneFrames.
NextZone ==
  \E boxes \in ZoneFrames : \E fault \in FrameFaults :
     CheckZoneOf(SquareZone, boxes, fault) /\ UNCHANGED <<camVars, pipeVars, alertVars, wireVars, feedVars, shutVars>>

SpecZone == InitDetSpec /\ [][NextZone]_vars

\* SpecFeed: one CameraStreamer.__call__ generator and its consumer, while
\* time passes.
NextFeed ==
  \/ FeedTick /\ UNCHANGED <<detVars, camVars, pipeVars, alertVars, wireVars, seenVars, shutVars>>
  \/ \E frame \in {None, 1} :
        FeedPoll(frame) /\ UNCHANGED <<detVars, camVars, pipeVars, alertVars, wireVars, seenVars, shutVars>>
  \/ \E reset_time \in wall..(IF wall < MaxTime THEN wall + 1 ELSE wall) :
        FeedResume(reset_time) /\ UNCHANGED <<detVars, camVars, pipeVars, alertVars, wireVars, seenVars, shutVars>>

\* The script of stream.py: "camera_streamer = CameraStreamer(cams[0])".
InitFeedSpec ==
  /\ InitDet /\ RestSlots /\ streamer_cam = [c \in Cams |-> "camera"]
  /\ InitPipe /\ InitAlert /\ RestWire /\ RestSeen /\ InitFeed /\ InitShut

SpecFeed == InitFeedSpec /\ [][NextFeed]_vars

\* SpecCam: the capture threads of all cameras and one thread calling
\* get_last_frame on one of them (stream.py run as a script).
NextCam ==
  \/ \E c \in Cams : CapTest(c) /\ UNCHANGED <<detVars, pipeVars, alertVars, wireVars, seenVars, feedVars, shutVars>>
  \/ \E c \in Cams : CapAcquire(c) /\ UNCHANGED <<detVars, pipeVars, alertVars, wireVars, seenVars, feedVars, shutVars>>
  \/ \E c \in Cams : CapRead(c) /\ UNCHANGED <<detVars, pipeVars, alertVars, wireVars, seenVars, feedVars, shutVars>>
  \/ \E c \in Cams : CapBlock(c) /\ UNCHANGED <<detVars, pipeVars, alertVars, wireVars, seenVars, feedVars, shutVars>>
  \/ \E c \in Cams : Release(c) /\ UNCHANGED <<detVars, pipeVars, alertVars, wireVars, seenVars, feedVars, shutVars>>
  \/ RdCall /\ UNCHANGED <<detVars, pipeVars, alertVars, wireVars, seenVars, feedVars, shutVars>>
  \/ RdTest /\ UNCHANGED <<detVars, pipeVars, alertVars, wireVars, seenVars, feedVars, shutVars>>
  \/ RdCopy /\ UNCHANGED <<detVars, pipeVars, alertVars, wireVars, seenVars, feedVars, shutVars>>

InitCamSpec == InitCam /\ InitDet /\ InitPipe /\ InitAlert /\ RestWire /\ RestSeen /\ InitFeed /\ InitShut

SpecCam == InitCamSpec /\ [][NextCam]_vars

\* SpecPipe: main.py running: the capture thread and the process_stream thread
\* of every camera and the main thread's display loop.
NextPipe ==
  \/ \E c \in Cams : CapTest(c) /\ UNCHANGED <<detVars, pipeVars, alertVars, wireVars, seenVars, feedVars, shutVars>>
  \/ \E c \in Cams : CapAcquire(c) /\ UNCHANGED <<detVars, pipeVars, alertVars, wireVars, seenVars, feedVars, shutVars>>
  \/ \E c \in Cams : CapRead(c) /\ UNCHANGED <<detVars, pipeVars, alertVars, wireVars, seenVars, feedVars, shutVars>>
  \/ \E c \in Cams : CapBlock(c) /\ UNCHANGED <<detVars, pipeVars, alertVars, wireVars, seenVars, feedVars, shutVars>>
  \/ \E c \in Cams : PipePoll(c) /\ UNCHANGED <<detVars, camVars, alertVars, wireVars, seenVars, feedVars, shutVars>>
  \/ \E c \in Cams : PipeCopy(c) /\ UNCHANGED <<detVars, camVars, alertVars, wireVars, seenVars, feedVars, shutVars>>
  \/ \E c \in Cams : \E handled \in Handled : PipeStopCheck(c, handled) /\ UNCHANGED <<detVars, camVars, alertVars, wireVars, seenVars, feedVars, shutVars>>
  \/ \E c \in Cams : PipePut(c) /\ UNCHANGED <<detVars, camVars, alertVars, wireVars, seenVars, feedVars, shutVars>>
  \/ \E c \in Cams : PipeResume(c) /\ UNCHANGED <<detVars, camVars, alertVars, wireVars, seenVars, feedVars, shutVars>>
  \/ MainShow /\ UNCHANGED <<detVars, camVars, alertVars, wireVars, seenVars, feedVars, shutVars>>
  \/ \E flagged \in BOOLEAN : MainQuit(flagged) /\ UNCHANGED <<detVars, camVars, alertVars, wireVars, seenVars, feedVars, shutVars>>

InitPipeSpec == InitCam /\ rd_cam = 0 /\ InitDet /\ InitPipe /\ InitAlert /\ RestWire /\ RestSeen /\ InitFeed /\ InitShut

SpecPipe == InitPipeSpec /\ [][NextPipe]_vars

\* SpecShut: main.py running with main taken step by step through its
\* display loop and its finally clause.  The steps of the finally clause are
\* taken when they can be (a join with a timeout returns, the lines after it
\* run); nothing is assumed of the other threads.
NextShut ==
  \/ \E c \in Cams : CapTest(c) /\ UNCHANGED <<detVars, pipeVars, alertVars, wireVars, seenVars, feedVars, shutVars>>
  \/ \E c \in Cams : CapAcquire(c) /\ UNCHANGED <<detVars, pipeVars, alertVars, wireVars, seenVars, feedVars, shutVars>>
  \/ \E c \in Cams : CapRead(c) /\ UNCHANGED <<detVars, pipeVars, alertVars, wireVars, seenVars, feedVars, shutVars>>
  \/ \E c \in Cams : CapBlock(c) /\ UNCHANGED <<detVars, pipeVars, alertVars, wireVars, seenVars, feedVars, shutVars>>
  \/ \E c \in Cams : PipePoll(c) /\ UNCHANGED <<detVars, camVars, alertVars, wireVars, seenVars, feedVars, shutVars>>
  \/ \E c \in Cams : PipeCopy(c) /\ UNCHANGED <<detVars, camVars, alertVars, wireVars, seenVars, feedVars, shutVars>>
  \/ \E c \in Cams : \E handled \in Handled : PipeStopCheck(c, handled) /\ UNCHANGED <<detVars, camVars, alertVars, wireVars, seenVars, feedVars, shutVars>>
  \/ \E c \in Cams : PipePut(c) /\ UNCHANGED <<detVars, camVars, alertVars, wireVars, seenVars, feedVars, shutVars>>
  \/ \E c \in Cams : PipeResume(c) /\ UNCHANGED <<detVars, camVars, alertVars, wireVars, seenVars, feedVars, shutVars>>
  \/ MainTest /\ UNCHANGED <<detVars, camVars, alertVars, wireVars, seenVars, feedVars>>
  \/ MainGet /\ UNCHANGED <<detVars, camVars, alertVars, wireVars, seenVars, feedVars>>
  \/ \E quit \in BOOLEAN : MainKey(quit) /\ UNCHANGED <<detVars, camVars, alertVars, wireVars, seenVars, feedVars>>
  \/ \E handler \in Handlers : MainInterrupt(handler) /\ UNCHANGED <<detVars, camVars, alertVars, wireVars, seenVars, feedVars>>
  \/ MainInterruptFinally /\ UNCHANGED <<detVars, camVars, alertVars, wireVars, seenVars, feedVars>>
  \/ MainJoin /\ UNCHANGED <<detVars, camVars, alertVars, wireVars, seenVars, feedVars>>
  \/ MainEnd /\ UNCHANGED <<detVars, camVars, alertVars, wireVars, seenVars, feedVars>>

\* main() started with the device of camera 0 open and the others closed: the
\* pipeline of camera 0 gets frames, the others poll an empty slot.
InitShutSpec == InitPipeSpec /\ vcap_opened = [c \in Cams |-> c = 0]

SpecShut ==
  /\ InitShutSpec
  /\ [][NextShut]_vars
  /\ WF_vars(MainJoin /\ UNCHANGED <<detVars, camVars, alertVars, wireVars, seenVars, feedVars>>)
  /\ WF_vars(MainEnd /\ UNCHANGED <<detVars, camVars, alertVars, wireVars, seenVars, feedVars>>)

\* SpecAlert: the save_alert calls of one caller (one camera_id and one
\* alert_type, as a detector instance has them), one after another, while time
\* passes: the first call picks the caller.
SameCaller(camera_id, alert_type) ==
  /\ \A k \in AlertCams : calls[k] = Idle
  /\ IF last_op.op = "none" THEN TRUE
     ELSE last_op.camera_id = camera_id /\ last_op.alert_type = alert_type

NextAlert ==
  \/ Tick /\ UNCHANGED <<detVars, camVars, pipeVars, wireVars, seenVars, feedVars, shutVars>>
  \/ \E camera_id \in AlertCams, alert_type \in AlertTypes,
        track_id \in AlertTracks, frame \in AlertFrames, details \in AlertDetails :
        /\ SameCaller(camera_id, alert_type)
        /\ SaveAlert(camera_id, alert_type, track_id, frame, details)
        /\ UNCHANGED <<detVars, camVars, pipeVars, wireVars, seenVars, feedVars, shutVars>>
  \/ \E k \in AlertCams, written \in BOOLEAN : SaveSnapshot(k, written) /\ UNCHANGED <<detVars, camVars, pipeVars, wireVars, seenVars, feedVars, shutVars>>
  \/ \E k \in AlertCams, outcome \in Outcomes : SaveInsert(k, outcome) /\ UNCHANGED <<detVars, camVars, pipeVars, wireVars, seenVars, feedVars, shutVars>>
  \/ \E k \in AlertCams, outcome \in Outcomes : SaveTrigger(k, outcome) /\ UNCHANGED <<detVars, camVars, pipeVars, wireVars, seenVars, feedVars, shutVars>>

InitAlertSpec == InitAlert /\ InitDet /\ RestCam /\ InitPipe /\ RestWire /\ RestSeen /\ InitFeed /\ InitShut

SpecAlert == InitAlertSpec /\ [][NextAlert]_vars

\* SpecQuery: the functions of alerts.py called from outside: the save_alert
\* calls of the danger-zone detectors of two cameras, each in its thread,
\* with get_recent_alerts and trigger_alert called between their steps.
NextQuery ==
  \/ Tick /\ UNCHANGED <<detVars, camVars, pipeVars, wireVars, seenVars, feedVars, shutVars>>
  \/ \E camera_id \in AlertCams :
        SaveAlert(camera_id, "danger_zone", 1, None, 1) /\ UNCHANGED <<detVars, camVars, pipeVars, wireVars, seenVars, feedVars, shutVars>>
  \/ \E k \in AlertCams : SaveSnapshot(k, FALSE) /\ UNCHANGED <<detVars, camVars, pipeVars, wireVars, seenVars, feedVars, shutVars>>
  \/ \E k \in AlertCams, outcome \in Outcomes : SaveInsert(k, outcome) /\ UNCHANGED <<detVars, camVars, pipeVars, wireVars, seenVars, feedVars, shutVars>>
  \/ \E k \in AlertCams, outcome \in Outcomes : SaveTrigger(k, outcome) /\ UNCHANGED <<detVars, camVars, pipeVars, wireVars, seenVars, feedVars, shutVars>>
  \/ \E camera_id \in AlertCams \cup {None}, limit \in 0..MaxSaves :
        GetRecentAlerts(camera_id, limit) /\ UNCHANGED <<detVars, camVars, pipeVars, wireVars, seenVars, feedVars, shutVars>>
  \/ \E camera_id \in AlertCams, outcome \in {"ok", "notify_failed"} :
        TriggerAlert(camera_id, "danger_zone", 1, isoformat(clock), outcome) /\ UNCHANGED <<detVars, camVars, pipeVars, wireVars, seenVars, feedVars, shutVars>>

SpecQuery == InitAlertSpec /\ [][NextQuery]_vars

\* SpecWire: the detectors as main.py runs them: every thread takes the
\* results of its frames through the detectors of its camera, the threads
\* interleaving between any two steps.
NextWire ==
  \/ \E c \in Cams : \E boxes \in WireResults(c) :
        WireTrack(c, boxes) /\ UNCHANGED <<camVars, pipeVars, alertVars, seenVars, feedVars, shutVars>>
  \/ \E c \in Cams : WireZoneStep(c) /\ UNCHANGED <<camVars, pipeVars, alertVars, seenVars, feedVars, shutVars>>
  \/ \E c \in Cams : WireZoneAdd(c) /\ UNCHANGED <<camVars, pipeVars, alertVars, seenVars, feedVars, shutVars>>
  \/ \E c \in Cams : WireHelmetStep(c) /\ UNCHANGED <<camVars, pipeVars, alertVars, seenVars, feedVars, shutVars>>
  \/ \E c \in Cams : WireHelmetAdd(c) /\ UNCHANGED <<camVars, pipeVars, alertVars, seenVars, feedVars, shutVars>>
  \/ \E c \in Cams : \E how \in Outcomes \ {"ok"} :
        WireSaveRaises(c, how) /\ UNCHANGED <<camVars, pipeVars, alertVars, seenVars, feedVars, shutVars>>

InitWireSpec == InitWire /\ RestSlots /\ InitStreamers /\ InitPipe /\ InitAlert /\ RestSeen /\ InitFeed /\ InitShut

SpecWire == InitWireSpec /\ [][NextWire]_vars

\* ---------------------------------------------------------------- claims
\* Rows of the table a detector instance has written for track t.
RowsFor(table, d, t) == AlertCount(table, d[1], AlertType(d[2]), t)

\* C1: over any sequence of check calls on one detector instance, every track
\* identifier has at most one row (one save_alert call that got to its commit)
\* of that detector's kind.
C1_AtMostOnce ==
  \A d \in Detectors : \A t \in TrackIds \cup {None} : RowsFor(alerts, d, t) <= 1

\* A call in which an already alerted track violated again, with its one row.
C1_Witness ==
  /\ last.det \in Detectors
  /\ \E t \in last.viol \cap last.pre : RowsFor(alerts, last.det, t) = 1

\* C2: a person detection without a track identifier never causes a row and
\* never enters alerted_tracks; a call in which only such detections violate
\* changes neither alerted_tracks nor the table.
C2_NoIdStep ==
  /\ \A r \in BagToSet(alerts') : r.track_id # None
  /\ \A d \in Detectors : None \notin alerted_tracks'[d]
  /\ last'.viol \subseteq {None} => alerted_tracks' = alerted_tracks /\ alerts' = alerts

C2_NoIdentitySuppressed == [][C2_NoIdStep]_vars

\* A call in which a detection without track id violated, alone.
C2_Witness == last.det \in Detectors /\ last.viol = {None}

\* C3: a call in which track t violates while t is not in alerted_tracks writes
\* exactly one row for t and leaves t in alerted_tracks; a track that was
\* already in alerted_tracks gets no row.
C3_FirstStep ==
  \A t \in last'.viol \ {None} :
    /\ t \in alerted_tracks'[last'.det]
    /\ RowsFor(alerts', last'.det, t) =
         RowsFor(alerts, last'.det, t) + (IF t \in alerted_tracks[last'.det] THEN 0 ELSE 1)

C3_FirstViolationWins == [][C3_FirstStep]_vars

\* A call that alerted a track for the first time while another track of the
\* same call was already alerted and suppressed.
C3_Witness ==
  /\ last.det \in Detectors
  /\ \E t \in last.viol \ ({None} \cup last.pre) : RowsFor(alerts, last.det, t) = 1
  /\ last.viol \cap last.pre # {}

\* C4: every frame get_last_frame returns is the frame of the most recent
\* successful write to the slot that preceded the copy, so a frame F1 that F2
\* has replaced is never returned.
C4_CopyStep ==
  (rd_pc = "tested" /\ rd_pc' = "done") =>
     rd_result' # None /\ rd_result' = captured[rd_cam]

C4_LatestFrame == [][C4_CopyStep]_vars

\* The device delivered frame 1, then frame 2; the call returned frame 2.
C4_Witness == rd_pc = "done" /\ rd_result = 2 /\ captured[rd_cam] = 2

\* C5 (the claim as stated): once a frame has been captured the slot never goes
\* back to None, whatever reads fail, and get_last_frame returns None only
\* while no frame has been captured.
C5_Step ==
  /\ \A c \in Cams : captured[c] > 0 => last_frame'[c] # None
  /\ (rd_pc = "call" /\ rd_pc' = "done") => captured[rd_cam] = 0

C5_FailedReadKeepsFrame == [][C5_Step]_vars

\* C6 (the claim as stated): between the test and the copy of a
\* get_last_frame call the slot is not written, and the call never fails.
C6_Step ==
  rd_pc = "tested" => last_frame'[rd_cam] = last_frame[rd_cam] /\ rd_pc' # "raised"

C6_LockScopedRead == [][C6_Step]_vars

\* C7 (the claim as stated): a camera whose read never returns holds nothing
\* another camera's capture task waits for.
C7_Independent ==
  \A c \in Cams : \A d \in Cams \ {c} :
     cap_pc[d] = "blocked" => ~(cap_pc[c] = "acquire" /\ lock = d)

\* C8 (the claim as stated): after a read error the capture loop of that camera
\* only exits, and a loop exits only when its own device is closed.
C8_Step ==
  \A c \in Cams :
    /\ (cap_pc[c] = "loop" /\ read_ret[c] = "false") => cap_pc'[c] \in {"loop", "exit"}
    /\ (cap_pc[c] # "exit" /\ cap_pc'[c] = "exit") => ~vcap_opened[c]

C8_FailureTerminates == [][C8_Step]_vars

\* C9 (the claim as stated): once the stop flag is set and no thread can take
\* a further step that changes the state, every pipeline thread has ended and
\* every capture loop has exited or sits in a device read that never returns.
C9_Cancellation ==
  (stop_event /\ ~ ENABLED <<NextPipe>>_vars) =>
     \A c \in Cams : /\ pipe_pc[c] \in {"exited", "raised"}
                     /\ cap_pc[c] \in {"exit", "blocked"}

\* C10: the queue never holds more than 2 * N_CAMS entries; a pipeline at
\* its put can always take it, and on a full queue the put it can take leaves
\* the queue as it is, whether or not main is still taking entries; a put with
\* room appends the pipeline's frame; after either the pipeline only goes on
\* to poll for its next frame, with no second put of the same frame.
C10_PutStep ==
  \A c \in Cams :
    /\ (pipe_pc[c] = "put" /\ pipe_pc'[c] # "put") =>
          IF Len(frame_queue) = 2 * N_CAMS
          THEN frame_queue' = frame_queue /\ pipe_pc'[c] = "dropped"
          ELSE /\ frame_queue' = Append(frame_queue, <<c, pipe_frame[c]>>)
               /\ pipe_pc'[c] = "queued"
    /\ pipe_pc[c] \in {"queued", "dropped"} => pipe_pc'[c] \in {pipe_pc[c], "poll"}
    /\ (pipe_pc[c] = "dropped" /\ pipe_pc'[c] = "poll") => frame_queue' = frame_queue

C10_Bounded ==
  /\ Len(frame_queue) <= 2 * N_CAMS
  /\ \A c \in Cams :
        pipe_pc[c] = "put" =>
          ENABLED (/\ PipePut(c)
                   /\ Len(frame_queue') <= 2 * N_CAMS
                   /\ Len(frame_queue) = 2 * N_CAMS => frame_queue' = frame_queue)

C10_DropNewest == [](C10_Bounded) /\ [][C10_PutStep]_vars

\* The display has taken nothing (the main thread is still in its loop), the
\* queue is full, one pipeline has just had its frame discarded and the other
\* one has its next frame.
C10_Witness ==
  /\ main_pc = "display"
  /\ Len(frame_queue) = 2 * N_CAMS
  /\ \E c \in Cams : /\ pipe_pc[c] = "dropped"
                     /\ \E d \in Cams \ {c} : pipe_pc[d] = "yielded"

\* The rows of the table with the fields trigger_alert is invoked with.
RowsOfKey(table, key) ==
  {i \in DOMAIN table : <<table[i].camera_id, table[i].alert_type,
                          table[i].track_id, table[i].timestamp>> = key}

\* C11: trigger_alert has been invoked with (camera id, alert type, track id,
\* timestamp) no more often than the table holds committed rows with these
\* four fields; a save_alert call whose INSERT or commit fails adds no row,
\* ends there and invokes trigger_alert not at all, and a notification goes
\* out only from a call that has added its row, with the fields of that row.
C11_Persisted ==
  \A key \in BagToSet(notified) :
     CopiesIn(key, notified) <= Cardinality(RowsOfKey(db, key))

\* The fields trigger_alert is invoked with by the save_alert call of thread k.
KeyOf(k) ==
  <<calls[k].camera_id, calls[k].alert_type, calls[k].track_id, calls[k].timestamp>>

C11_SaveStep ==
  /\ notified' # notified =>
        \E k \in AlertCams :
           /\ calls[k].pc = "trigger" /\ calls'[k] = Idle
           /\ notified' = notified (+) SetToBag({KeyOf(k)})
           /\ RowsOfKey(db, KeyOf(k)) # {}
  /\ \A k \in AlertCams :
        /\ (calls[k].pc = "insert" /\ calls'[k] # calls[k] /\ db' = db)
              => calls'[k] = Idle /\ notified' = notified
        /\ (calls[k].pc = "insert" /\ calls'[k].pc = "trigger")
              => /\ Len(db') = Len(db) + 1
                 /\ RowsOfKey(db', KeyOf(k)) \ RowsOfKey(db, KeyOf(k)) = {Len(db')}

C11_NotifiedIsPersisted == [](C11_Persisted) /\ [][C11_SaveStep]_vars

\* One call was notified and has its row; the call after it failed at the
\* commit.
C11_Witness ==
  /\ last_op.op = "save"
  /\ last_op.outcome = "commit_failed"
  /\ BagCardinality(notified) = 1
  /\ Len(db) = 1

\* The clock tick a timestamp text was printed from.
TickOf(timestamp) == CHOOSE k \in 0..MaxClock : isoformat(k) = timestamp

\* The rows of the table a query for camera_id is about.
MatchingRows(table, camera_id) ==
  {table[i] : i \in {j \in DOMAIN table : camera_id = None \/ table[j].camera_id = camera_id}}

\* C12: get_recent_alerts(camera_id, limit) returns min(limit, number of
\* matching rows) different rows of the table, each of the requested camera
\* when one is given, none of them older than the one after it and none of
\* them older than a matching row that was left out; a step that is no
\* save_alert call leaves the table, the files and the notifications alone.
C12_Result ==
  last_op.op = "query" =>
    LET result == last_op.result
        matching == MatchingRows(SubSeq(db, 1, last_op.size), last_op.camera_id)
        returned == {result[i] : i \in DOMAIN result}
        n == Cardinality(matching)
    IN  /\ Len(result) = IF last_op.limit < n THEN last_op.limit ELSE n
        /\ Cardinality(returned) = Len(result)
        /\ returned \subseteq matching
        /\ \A i, j \in DOMAIN result :
              i < j => TickOf(result[i].timestamp) >= TickOf(result[j].timestamp)
        /\ \A out \in matching \ returned : \A r \in returned :
              TickOf(out.timestamp) <= TickOf(r.timestamp)

C12_ReadOnlyStep ==
  (last_op' # last_op /\ last_op'.op = "query") =>
     /\ last_op'.size = Len(db)
     /\ db' = db /\ files' = files /\ notified' = notified /\ calls' = calls

C12_RecentAlerts == [](C12_Result) /\ [][C12_ReadOnlyStep]_vars

\* Two rows, the one inserted last carrying the older timestamp; the query
\* for every camera with limit 1 has seen both and returned the newer row,
\* inserted first.
C12_Witness ==
  /\ last_op.op = "query" /\ last_op.camera_id = None /\ last_op.limit = 1
  /\ Len(db) = 2 /\ last_op.size = 2
  /\ TickOf(db[2].timestamp) < TickOf(db[1].timestamp)
  /\ last_op.result = <<db[1]>>

\* C13 (the claim as stated): a save_alert call that returns adds exactly one
\* row, with the camera id, kind, track id and details it was given; every
\* get_recent_alerts with a limit of the table's size returns that row, with
\* or without the camera filter; the row has a snapshot path exactly when a
\* frame was given, and the file of that path exists.
C13_SaveStep ==
  \A k \in AlertCams :
     /\ (calls[k].pc = "insert" /\ calls'[k].pc = "trigger") =>
           LET row == db'[Len(db')]
           IN  /\ Len(db') = Len(db) + 1
               /\ SubSeq(db', 1, Len(db)) = db
               /\ row.camera_id = calls[k].camera_id
               /\ row.alert_type = calls[k].alert_type
               /\ row.track_id = calls[k].track_id
               /\ row.details = calls[k].details
               /\ (calls[k].frame # None) <=> (row.snapshot_path # NoPath)
     /\ (calls[k].pc = "trigger" /\ calls'[k] = Idle /\ last_op'.outcome = "ok") =>
           \E i \in DOMAIN db' :
              LET row == db'[i]
              IN  /\ <<row.camera_id, row.alert_type, row.track_id, row.timestamp>> = KeyOf(k)
                  /\ row.details = calls[k].details
                  /\ \A camera_id \in {None, row.camera_id} :
                        \A result \in get_recent_alerts(db', camera_id, Len(db')) :
                           \E j \in DOMAIN result : result[j] = row
                  /\ (calls[k].frame # None) <=> (row.snapshot_path # NoPath)
                  /\ row.snapshot_path # NoPath => row.snapshot_path \in files'
     /\ (calls[k].pc # "insert" /\ calls'[k] # calls[k]) => db' = db

C13_RoundTrip == [][C13_SaveStep]_vars

\* A check call of detector d has begun and not returned.
InCall(d) ==
  \E c \in Cams :
     /\ d \in DetectorsOf(c)
     /\ \/ d[2] = "danger_zone" /\ w_pc[c] \in {"zone", "zone_add"}
        \/ d[2] = "helmet" /\ w_pc[c] \in {"helmet", "helmet_add"}

\* The track ids of the rows of a table written with d's camera and kind.
TracksOf(table, d) ==
  {r.track_id : r \in {x \in BagToSet(table) :
                          x.camera_id = d[1] /\ x.alert_type = AlertType(d[2])}}

\* At most one row of the table per (camera_id, alert_type, track_id), and the
\* rows of every detector without a call in progress are those of its
\* alerted_tracks, one each.
OneRowPerTrack(table) ==
  /\ \A r \in BagToSet(table) : AlertCount(table, r.camera_id, r.alert_type, r.track_id) <= 1
  /\ \A d \in Detectors : ~ InCall(d) => TracksOf(table, d) = alerted_tracks[d]

\* C14 (the claim as stated): the alerts table holds at most one row per
\* (camera_id, alert_type, track_id), and the rows of a detector without a
\* check call in progress are those of its alerted_tracks.
C14_TableOneRowPerTuple == OneRowPerTrack(alerts)

\* C14 (read of the rows written since the process started, whatever rows the
\* runs before left in alerts.db): at most one row per (camera_id,
\* alert_type, track_id), and the rows of a detector without a check call in
\* progress are those of its alerted_tracks.
C14_RunOneRowPerTuple == OneRowPerTrack(alerts (-) old_alerts)

\* An earlier run left the row of (0, danger_zone, 1); this run has written
\* the row of that tuple again, and every thread is between two frames.
C14_Witness ==
  /\ old_alerts # EmptyBag
  /\ AlertCount(alerts, 0, "danger_zone", 1) = 2
  /\ \A c \in Cams : w_pc[c] = "idle"

\* The coverage condition as the specification words it, for a helmet box h
\* and a person box p (0.3 written as 3/10).
HeadCovered(h, p) ==
  /\ h[1] < p[3] /\ h[3] > p[1]
  /\ 10 * h[2] < 10 * p[2] + 3 * (p[4] - p[2])
  /\ h[4] > p[2]

\* The track ids (None included) of the persons of a frame that no helmet box
\* of the same frame covers.
Unhelmeted(boxes) ==
  {boxes[i].id : i \in {k \in 1..Len(boxes) :
      /\ boxes[k].cls = 2
      /\ ~\E j \in 1..Len(boxes) : boxes[j].cls = 0 /\ HeadCovered(boxes[j].xyxy, boxes[k].xyxy)}}

\* The frame holds the helmet box h.
HasBox(boxes, h) == \E j \in 1..Len(boxes) : boxes[j].cls = 0 /\ boxes[j].xyxy = h

\* After a check_helmet call the persons found without a helmet are those of
\* the frame no helmet box covers: none with the helmet (110,80)-(190,160),
\* the person with only the helmet (110,200)-(190,260).
C15_Classified ==
  seen # <<>> =>
    /\ last.viol = Unhelmeted(seen)
    /\ HasBox(seen, <<110, 80, 190, 160>>) => last.viol = {}
    /\ (\A j \in 1..Len(seen) : seen[j].cls = 0 => seen[j].xyxy = <<110, 200, 190, 260>>)
          => last.viol # {}

\* The rows of kind alert_type a step has added for track t on last'.det's camera.
NewRows(alert_type, t) ==
  AlertCount(alerts', last'.det[1], alert_type, t)
    - AlertCount(alerts, last'.det[1], alert_type, t)

\* A check call with the frame seen' alerts for and records persons of the
\* set found only (the identified ones not recorded before), one row each at
\* most: all of them when the call returns, and not the one whose save_alert
\* raised when it ends so.
AlertsFor(found, alert_type) ==
  LET fresh == (found \ {None}) \ alerted_tracks[last'.det]
      added == alerted_tracks'[last'.det] \ alerted_tracks[last'.det]
  IN  /\ alerted_tracks[last'.det] \subseteq alerted_tracks'[last'.det]
      /\ added \subseteq fresh
      /\ \A t \in TrackIds :
            /\ NewRows(alert_type, t) \in {0, 1}
            /\ NewRows(alert_type, t) = 1 => t \in fresh
            /\ t \in added => NewRows(alert_type, t) = 1
      /\ IF last'.raised
         THEN added # fresh
         ELSE added = fresh /\ \A t \in fresh : NewRows(alert_type, t) = 1

\* A check_helmet call alerts for and records the identified persons of its
\* own frame that no helmet box covers and that were not recorded before,
\* whatever the frames before it were.
C15_FrameStep ==
  seen' # seen \/ last' # last => AlertsFor(Unhelmeted(seen'), "no_helmet")

\* C15: check_helmet classifies a person as helmeted iff some helmet box of
\* the same frame satisfies hx1 < x2, hx2 > x1, hy1 < y1 + 0.3*(y2-y1) and
\* hy2 > y1, all strict; the person (100,100)-(200,300) is helmeted with the
\* helmet (110,80)-(190,160) and unhelmeted with the helmet (110,200)-(190,260);
\* the classification depends on the current frame only.
C15_HelmetHeuristic == [](C15_Classified) /\ [][C15_FrameStep]_vars

\* A person recorded by an earlier frame is found helmeted in a frame with the
\* helmet (110,80)-(190,160) after having been found unhelmeted with the
\* helmet (110,200)-(190,260) only.
C15_Witness ==
  /\ seen # <<>>
  /\ HasBox(seen, <<110, 80, 190, 160>>)
  /\ last.viol = {}
  /\ \E i \in 1..Len(seen) : seen[i].cls = 2 /\ seen[i].id \in last.pre

\* int(v / 2) as the specification reads it: v / 2 with its fraction dropped.
HalfOf(v) ==
  CHOOSE q \in -100..100 : IF v >= 0 THEN 2 * q <= v /\ v < 2 * q + 2
                                      ELSE 2 * q - 2 < v /\ v <= 2 * q

\* The point the specification tests: (int((x1+x2)/2), int((y1+y2)/2)).
CentrePoint(xyxy) == <<HalfOf(xyxy[1] + xyxy[3]), HalfOf(xyxy[2] + xyxy[4])>>

\* Inside or exactly on the boundary of the square [(0,0),(10,0),(10,10),(0,10)].
InSquare(pt) == 0 <= pt[1] /\ pt[1] <= 10 /\ 0 <= pt[2] /\ pt[2] <= 10

\* The track ids (None included) of the persons of a frame whose centre point
\* is in the square.
InZone(boxes) ==
  {boxes[i].id : i \in {k \in 1..Len(boxes) :
      boxes[k].cls = 2 /\ InSquare(CentrePoint(boxes[k].xyxy))}}

\* The frame holds a person whose centre point is pt.
PersonAt(boxes, pt) ==
  \E i \in 1..Len(boxes) : boxes[i].cls = 2 /\ CentrePoint(boxes[i].xyxy) = pt

\* After a check_zone call the persons found in the zone are those whose
\* centre point is inside or on the boundary: a person at (5,5) and one at
\* (0,5) are, one at (15,5) is not.
C16_Contained ==
  seen # <<>> =>
    /\ last.viol = InZone(seen)
    /\ PersonAt(seen, <<5, 5>>) => last.viol # {}
    /\ PersonAt(seen, <<0, 5>>) => last.viol # {}
    /\ PersonAt(seen, <<15, 5>>) => last.viol = {}

\* A check_zone call alerts for and records the identified persons of its
\* frame whose centre point is in the zone and that were not recorded before.
C16_ZoneStep ==
  seen' # seen \/ last' # last => AlertsFor(InZone(seen'), "danger_zone")

\* C16: check_zone treats a person as inside the zone iff the point
\* (int((x1+x2)/2), int((y1+y2)/2)) lies inside or exactly on the boundary of
\* the zone polygon; for the square of side 10 the centre (5,5) is inside,
\* (15,5) is outside and the boundary point (0,5) is inside.
C16_ZoneContainment == [](C16_Contained) /\ [][C16_ZoneStep]_vars

\* A person whose centre point is the boundary point (0,5) has just alerted.
C16_Witness ==
  /\ seen # <<>>
  /\ PersonAt(seen, <<0, 5>>)
  /\ \E t \in TrackIds : t \in last.viol /\ t \notin last.pre /\ t \in alerted_tracks[last.det]

\* Every frame a feed has yielded and its pipeline holds is a frame, not None.
C17_YieldedIsFrame ==
  \A c \in Cams : pipe_pc[c] \in {"yielded", "put", "queued", "dropped"} => pipe_frame[c] # None

\* No step of a feed that polls (the call of get_last_frame, its test and its
\* copy) ends the thread with an exception.
C17_PollStep ==
  \A c \in Cams : pipe_pc[c] \in {"poll", "copy"} => pipe_pc'[c] # "raised"

\* C17: every value yielded by CameraStreamer.__call__ is a frame, and the
\* generator never raises while polling, under any interleaving with the
\* capture thread: handle_frame is never given a missing frame.
C17_AbsenceNotSurfaced == [](C17_YieldedIsFrame) /\ [][C17_PollStep]_vars

\* The pipeline threads that are handed the detector instance d.
ThreadsOf(d) == {c \in Cams : d \in DetectorsOf(c)}

\* The detector instance whose check call thread c is inside, if any.
Checking(c) ==
  IF w_pc[c] \in {"zone", "zone_add"} /\ (\E d \in DetectorsOf(c) : d[2] = "danger_zone")
  THEN {DetectorAt(c, "danger_zone")}
  ELSE IF w_pc[c] \in {"helmet", "helmet_add"} /\ (\E d \in DetectorsOf(c) : d[2] = "helmet")
  THEN {DetectorAt(c, "helmet")}
  ELSE {}

\* No two threads are inside a check call of the same detector instance.
C18_NoInterleaving ==
  \A c1 \in Cams, c2 \in Cams : c1 # c2 => Checking(c1) \cap Checking(c2) = {}

\* This run has written at most one row per detector instance and track.
C18_NoSecondAlert ==
  \A d \in Detectors, t \in WireTracks :
     AlertCount(alerts (-) old_alerts, d[1], AlertType(d[2]), t) <= 1

\* C18: with the wiring of main.py every detector instance is handed to one
\* pipeline thread only (the thread of its camera, where N_CAMS has one), so
\* no two threads are ever inside a check call of the same instance and the
\* unlocked test-then-add writes no second alert for a track.
C18_InstanceNotShared ==
  /\ \A d \in Detectors :
        /\ Cardinality(ThreadsOf(d)) <= 1
        /\ d[1] \in Cams => ThreadsOf(d) = {d[1]}
  /\ C18_NoInterleaving
  /\ C18_NoSecondAlert

\* Two threads are between the save_alert and the add of a check call at the
\* same time, for the same track id, each on the detector of its own camera.
C18_Witness ==
  /\ w_pc[0] = "zone_add" /\ w_pc[1] = "zone_add"
  /\ Head(w_todo[0]).id = Head(w_todo[1]).id
  /\ Checking(0) # Checking(1)

\* The step is the generator resuming after a yield.
Resumes == feed_pc = "yielded" /\ feed_pc' = "poll"

\* The fraction f equals n / d.
SameFraction(f, n, d) == f[1] * d = n * f[2]

\* A resume at least one second (two ticks) after the window start writes fps
\* = (frames yielded in the window) / (elapsed seconds), sets the counter to 0 and the
\* window start to the time of the reset; any other resume leaves fps and the
\* window start alone and adds one to the counter; no other step touches them.
C19_FpsStep ==
  IF Resumes
  THEN IF wall - start_time >= 2
       THEN /\ SameFraction(fps', 2 * (frame_count + 1), wall - start_time)
            /\ frame_count' = 0
            /\ start_time' = wall'
       ELSE /\ fps' = fps
            /\ frame_count' = frame_count + 1
            /\ start_time' = start_time
  ELSE fps' = fps /\ frame_count' = frame_count /\ start_time' = start_time

\* C19: fps changes only at window boundaries: after a yielded frame it is
\* rewritten to frames / elapsed time exactly when at least 1 second has
\* elapsed since the window start, the counter reset to 0 and the window start
\* to now; in every other step fps is unchanged and the counter grows by one
\* per yielded frame.
C19_FpsWindow == [][C19_FpsStep]_vars

\* A window of two frames over exactly one second has just been closed, and
\* an earlier one before it.
C19_Witness ==
  /\ feed_pc = "poll"
  /\ frame_count = 0
  /\ start_time = wall /\ wall > 2
  /\ SameFraction(fps, 2, 1)

\* No step removes an element from a detector's alerted_tracks, and what a
\* step adds are track ids of persons that violated in the check call it is.
C20_GrowStep ==
  \A d \in Detectors :
     /\ alerted_tracks[d] \subseteq alerted_tracks'[d]
     /\ alerted_tracks'[d] \ alerted_tracks[d]
          \subseteq (IF d = last'.det THEN last'.viol \ {None} ELSE {})

\* C20: alerted_tracks grows monotonically: no operation of either detector
\* removes an element, so the set of a state is a subset of the set of every
\* later state, and a check call adds only track ids of person detections
\* that violated in that call.
C20_Monotone == [][C20_GrowStep]_vars

\* A check call has added a track to a set that held another one already.
C20_Witness ==
  /\ last.det # NoDetector
  /\ last.pre # {}
  /\ last.pre \subseteq alerted_tracks[last.det]
  /\ alerted_tracks[last.det] # last.pre

\* The rows this run has written for detector d and track t.
RunRows(d, t) == AlertCount(alerts (-) old_alerts, d[1], AlertType(d[2]), t)

\* Every member of a detector's alerted_tracks has a row this run has written.
C21_MemberHasRow ==
  \A d \in Detectors : \A t \in alerted_tracks[d] : RunRows(d, t) >= 1

\* The track a thread is at in its check call.
TrackAt(c) == Head(w_todo[c]).id

\* A track enters alerted_tracks only when its row is in the table already;
\* a check call that ends in a failed save_alert changes no alerted_tracks,
\* and its track is still one the detector would alert for.
C21_RecordStep ==
  /\ \A d \in Detectors : \A t \in alerted_tracks'[d] \ alerted_tracks[d] :
        RunRows(d, t) >= 1
  /\ \A c \in Cams :
        w_pc[c] # "raised" /\ w_pc'[c] = "raised" =>
          /\ alerted_tracks' = alerted_tracks
          /\ \A d \in Checking(c) : ShouldAlert(TrackAt(c), alerted_tracks'[d])

\* C21: the alert is emitted first and the identifier recorded afterwards: a
\* track id enters alerted_tracks only after save_alert for it has returned,
\* so every member of alerted_tracks has a persisted row; when save_alert
\* fails alerted_tracks is unchanged and the track stays eligible.
C21_AlertThenRecord == [](C21_MemberHasRow) /\ [][C21_RecordStep]_vars

\* The save_alert of thread 0 has failed for a track its detector has not
\* recorded, while the detector of camera 1 has recorded the same track with
\* its row.
C21_Witness ==
  /\ w_pc[0] = "raised"
  /\ w_todo[0] # <<>>
  /\ TrackAt(0) \notin alerted_tracks[<<0, "danger_zone">>]
  /\ TrackAt(0) \in alerted_tracks[<<1, "danger_zone">>]
  /\ RunRows(<<1, "danger_zone">>, TrackAt(0)) = 1

\* The kind of detector a thread at pc is inside.
KindAt(pc) ==
  IF pc \in {"zone", "zone_add"} THEN "danger_zone"
  ELSE IF pc \in {"helmet", "helmet_add"} THEN "helmet" ELSE "none"

\* A step changes the alerted_tracks of one instance at most: that of the
\* camera and kind of the check call the stepping thread is inside.
C22_FrameStep ==
  \A d \in Detectors :
     alerted_tracks'[d] # alerted_tracks[d] =>
       /\ d[1] \in Cams
       /\ w_pc'[d[1]] # w_pc[d[1]]
       /\ KindAt(w_pc[d[1]]) = d[2]
       /\ \A e \in Detectors \ {d} : alerted_tracks'[e] = alerted_tracks[e]

\* A thread's check call that reaches a violating person its own instance has
\* not recorded alerts for it (or its save_alert fails), whatever the other
\* instances have recorded.
C22_OwnSetStep ==
  \A c \in Cams :
     LET d == <<c, KindAt(w_pc[c])>>
     IN  (/\ w_pc'[c] # w_pc[c] \/ w_todo'[c] # w_todo[c]
          /\ d \in Detectors
          /\ w_pc[c] \in {"zone", "helmet"}
          /\ w_todo[c] # <<>>
          /\ IF d[2] = "danger_zone"
             THEN ZoneViolation(DANGER_ZONES[c], Head(w_todo[c]))
             ELSE HelmetViolation(HelmetBoxes(w_results[c]), Head(w_todo[c]))
          /\ ShouldAlert(TrackAt(c), alerted_tracks[d]))
         => \/ w_pc'[c] = "raised"
            \/ RunRows(d, TrackAt(c))' = RunRows(d, TrackAt(c)) + 1

\* C22: dedup state is scoped to one detector instance: check_zone leaves
\* every NoHelmetDetector's alerted_tracks and every other camera's detector
\* state unchanged, and check_helmet likewise; so one track id gets its
\* danger_zone alert and its no_helmet alert on the same camera, and an alert
\* on each camera where it appears.
C22_InstanceScoped == [][C22_FrameStep /\ C22_OwnSetStep]_vars

\* Track 1 has one danger_zone row and one no_helmet row on camera 0 and one
\* danger_zone row on camera 1, and is recorded by the three instances.
C22_Witness ==
  /\ RunRows(<<0, "danger_zone">>, 1) = 1
  /\ RunRows(<<0, "helmet">>, 1) = 1
  /\ RunRows(<<1, "danger_zone">>, 1) = 1
  /\ \A d \in {<<0, "danger_zone">>, <<0, "helmet">>, <<1, "danger_zone">>} :
        1 \in alerted_tracks[d]

\* The rows of the table that reference the snapshot file f.
RowsReferencing(f) == {i \in DOMAIN db : db[i].snapshot_path = f}

\* The keys (camera, kind, track, timestamp) an alert can have.
AlertKeys == AlertCams \X AlertTypes \X AlertTracks \X {isoformat(k) : k \in 0..MaxClock}

\* Two alerts that differ in camera, kind, track or timestamp have snapshot
\* files of different names.
C23_NamesDiffer ==
  \A a \in AlertKeys, b \in AlertKeys :
     a # b => SnapshotPath(a[1], a[2], a[3], a[4]) # SnapshotPath(b[1], b[2], b[3], b[4])

\* C23: every snapshot file save_alert has written is referenced by exactly
\* one row, and the rows with a snapshot_path reference files distinct from
\* one another, also after a call whose snapshot was written and whose INSERT
\* failed; alerts that differ in camera, kind, track or timestamp have files
\* of different names.
\* (Stated of the states in which no save_alert call is in progress.)
C23_OneFilePerAlert ==
  (\A k \in AlertCams : calls[k] = Idle) =>
    /\ \A f \in files : Cardinality(RowsReferencing(f)) = 1
    /\ \A i \in DOMAIN db, j \in DOMAIN db :
          i # j /\ db[i].snapshot_path # NoPath => db[i].snapshot_path # db[j].snapshot_path
    /\ C23_NamesDiffer

\* main is never at a get() of an empty queue.
C24_GetNeverWaits == main_pc = "get" => frame_queue # <<>>

\* The stop flag stays set, joins are not undone, main has ended for good
\* once it has, and it ends only after N_CAMS joins have returned.
C24_ShutdownStep ==
  /\ stop_event => stop_event'
  /\ stop_event => joined' >= joined /\ (main_pc = "done" => main_pc' = "done")
  /\ (main_pc' = "done" /\ main_pc # "done") => main_pc = "join" /\ joined = N_CAMS

\* C24: after the display loop has set the stop flag main reaches its end,
\* having waited a bounded time for each pipeline thread, whether or not the
\* threads have exited; and the display loop never waits on the frame queue:
\* it takes an entry only after it has seen the queue non-empty, and nothing
\* else takes entries.
C24_ShutdownCompletes ==
  /\ [](C24_GetNeverWaits)
  /\ [][C24_ShutdownStep]_vars
  /\ (stop_event ~> main_pc = "done")

\* Once the flag is set main ends: it returns after its N_CAMS joins, or it
\* ends with a KeyboardInterrupt raised in its except or finally clause.
C24_EndsOrInterrupted ==
  /\ [](C24_GetNeverWaits)
  /\ [][C24_ShutdownStep]_vars
  /\ (stop_event ~> main_pc \in {"done", "reraised", "interrupted"})

\* main has ended while the pipeline of camera 0 has exited and that of
\* camera 1 is still polling.
C24_Witness ==
  /\ main_pc = "done"
  /\ joined = N_CAMS
  /\ pipe_pc[0] = "exited"
  /\ pipe_pc[1] = "poll"

\* C25: of any two rows of the alert table the one with the larger id has a
\* timestamp greater than or equal to the other's, also when the save_alert
\* calls of different pipelines overlap: newest first by timestamp is newest
\* first by insertion.
\* (Stated of the rows of two different cameras, whose save_alert calls are
\* the ones that overlap.)
C25_TimestampFollowsId ==
  \A i \in DOMAIN db, j \in DOMAIN db :
     db[i].camera_id # db[j].camera_id /\ db[i].id < db[j].id
       => ~ TextLess(db[j].timestamp, db[i].timestamp)
====
